---- MODULE Spec2Model ----
(***************************************************************************)
(* A model of the baserow ORM layer (src/src/baserow/orm/*.py) and of the  *)
(* row pagination of the client (src/src/baserow/client.py).               *)
(*                                                                         *)
(* Python values are modelled as follows.                                  *)
(*  - a dict (insertion ordered) is a sequence of <<key, value>> pairs;    *)
(*  - an Optional[int] is an integer, None being -1;                       *)
(*  - a string built by concatenation is a record of its parts: the        *)
(*    placeholder user_name + "." + uuid is [kind |-> "ph", name, num],    *)
(*    the field reference "field_" + id is [kind |-> "field_", "", id];    *)
(*  - an object with identity (a Column) is an index into a heap;          *)
(*  - uuid.uuid4() is a fresh number (collisions of random 122 bit values  *)
(*    are not modelled).                                                   *)
(*  - str(n) is the decimal string of n; an Optional value that is None   *)
(*    where a record is expected is a record with some = FALSE.            *)
(* Every subsystem has its own specification (SpecDecl, SpecCtor, ...);    *)
(* the variables of the other subsystems stay at their idle value.         *)
(***************************************************************************)
EXTENDS Integers, Sequences, FiniteSets, TLC

VARIABLES
  \* ---- declaration of Column and Model types (column.py, model.py)
  heap,        \* the Column instances alive, by object identity (index)
  classes,     \* dict: class name -> the Model type's class attributes
  uuids,       \* number of uuid4() values drawn so far
  declOut,     \* outcome of the last declaration
  \* ---- construction of a Model instance (model.py)
  ctor,        \* the last Model(...) call: its input, outcome and trace
  \* ---- one ModelMapping (mapping.py)
  mm,          \* its fields and its cache _reverse_fields
  mmRead,      \* what the last read of reverse_fields returned
  \* ---- one LinkedRow and the transport under it (column.py)
  linked,      \* the LinkedRow: _db, _model, _refs, _cache
  lrOut,       \* the last access: operation, outcome, requests issued
  fetched,     \* history: the fetches issued for the LinkedRow's indexes
  \* ---- Database.save of one Model instance (database.py)
  saved,       \* the instance: cls, id, attrs
  saveLog,     \* history: the create and update requests issued, in order
  saveOut,     \* the number of save calls and the outcome of the last one
  \* ---- one Database, one Query and the backend under them (database.py)
  database,    \* the Database: _translator and its _visited
  backend,     \* what the backend answers to the list request of each page
  query,       \* the Query: _model, _filters, _page_size, _paginator, ...
  requests,    \* history: the list requests issued, in order
  yielded,     \* history: the ids of the instances the Query returned
  qOut,        \* the last call on the Query: operation, outcome, value
  iterated,    \* history: an iteration step of the Query has been taken
  \* ---- generate_mapping against a backend schema (mapping.py)
  remote,      \* the applications, tables and fields the backend holds
  generated,   \* the last generate_mapping call: its input and its outcome
  \* ---- Database._preprocess_filter on the Database above (database.py)
  translated,  \* the last filter translated, its translation, and again
  \* ---- ForeignKey objects and their model accessor (column.py)
  fkeys,       \* the ForeignKeys: _model, and the history of their accesses
  \* ---- two Queries of one Database (database.py)
  pair         \* the Database, the Queries, their filter lists, what they yielded

declVars == <<heap, classes, uuids, declOut>>
ctorVars == <<ctor>>
mapVars == <<mm, mmRead>>
linkVars == <<linked, lrOut, fetched>>
saveVars == <<saved, saveLog, saveOut>>
queryVars == <<database, backend, query, requests, yielded, qOut, iterated>>
genVars == <<remote, generated>>
transVars == <<translated>>
refVars == <<fkeys>>
pairVars == <<pair>>
vars ==
  <<declVars, ctorVars, mapVars, linkVars, saveVars, queryVars, genVars,
    transVars, refVars, pairVars>>

notDeclVars ==
  <<ctorVars, mapVars, linkVars, saveVars, queryVars, genVars, transVars,
    refVars, pairVars>>
notCtorVars ==
  <<declVars, mapVars, linkVars, saveVars, queryVars, genVars, transVars,
    refVars, pairVars>>
notMapVars ==
  <<declVars, ctorVars, linkVars, saveVars, queryVars, genVars, transVars,
    refVars, pairVars>>
notLinkVars ==
  <<declVars, ctorVars, mapVars, saveVars, queryVars, genVars, transVars,
    refVars, pairVars>>
notSaveVars ==
  <<declVars, ctorVars, mapVars, linkVars, queryVars, genVars, transVars,
    refVars, pairVars>>
notGenVars ==
  <<declVars, ctorVars, mapVars, linkVars, saveVars, queryVars, transVars,
    refVars, pairVars>>
notQueryTransVars ==
  <<declVars, ctorVars, mapVars, linkVars, saveVars, genVars,
    refVars, pairVars>>
notRefVars ==
  <<declVars, ctorVars, mapVars, linkVars, saveVars, queryVars, genVars,
    transVars, pairVars>>
notPairVars ==
  <<declVars, ctorVars, mapVars, linkVars, saveVars, queryVars, genVars,
    transVars, refVars>>
notQueryVars ==
  <<declVars, ctorVars, mapVars, linkVars, saveVars, genVars, transVars,
    refVars, pairVars>>

(***************************************************************************)
(* Python basics                                                           *)
(***************************************************************************)

None == -1

\* dict helpers: a dict is a sequence of <<key, value>> with distinct keys
DictKeys(d) == {d[i][1] : i \in DOMAIN d}

DictValues(d) == {d[i][2] : i \in DOMAIN d}

DictHas(d, k) == \E i \in DOMAIN d : d[i][1] = k

DictGet(d, k) == d[CHOOSE i \in DOMAIN d : d[i][1] = k][2]

\* d[k] = v: an existing key keeps its position, a new key goes last
DictSet(d, k, v) ==
  IF DictHas(d, k)
  THEN [i \in DOMAIN d |-> IF d[i][1] = k THEN <<k, v>> ELSE d[i]]
  ELSE Append(d, <<k, v>>)

DictDel(d, k) == SelectSeq(d, LAMBDA p : p[1] # k)

\* all dicts with distinct keys from K, values from V, at most n entries
RECURSIVE DictsOver(_, _, _)
DictsOver(K, V, n) ==
  IF n = 0 THEN {<<>>}
  ELSE LET shorter == DictsOver(K, V, n - 1)
       IN shorter \cup
          UNION {{Append(d, <<k, v>>) : k \in K \ DictKeys(d), v \in V} :
                   d \in shorter}

(***************************************************************************)
(* column.py: Column, ForeignKey                                           *)
(***************************************************************************)

\* the placeholder string user_name + '.' + str(uuid)
Placeholder(user_name, uuid) == [kind |-> "ph", name |-> user_name, num |-> uuid]

\* a field reference that leaves out the id
FieldRef_bare(id) == [kind |-> "field_", name |-> "", num |-> 0]

\* the backend field reference f'field_{id}'
FieldRef(id) == [kind |-> "field_", name |-> "", num |-> id]

NoModel == ""

\* Column.__init__: _name is the placeholder, _user_name the remote name
Column_init(user_name, uuid) ==
  [cls |-> "Column", _name |-> Placeholder(user_name, uuid),
   _user_name |-> user_name, _model |-> NoModel]

\* ForeignKey.__init__
ForeignKey_init(user_name, uuid, model) ==
  [Column_init(user_name, uuid) EXCEPT !.cls = "ForeignKey", !._model = model]

\* Column.id
Column_id(col) == col._name

\* Column.name
Column_name(col) == col._user_name

\* copy.copy(column): a new object with the same attributes
copy_copy(col) == col

(***************************************************************************)
(* model.py: declaration of a Model subtype                                *)
(***************************************************************************)

NoId == ""

NoName == ""

\* the class Model itself: no __id__, and Model.__columns__ = {}
ModelRoot ==
  [name |-> "Model", id |-> NoId, tablename |-> NoName, columns |-> <<>>,
   base |-> "", own_id |-> FALSE]

\* "for key, value in base.__columns__.items(): if key not in
\* cls.__columns__: cls.__columns__[key] = copy.copy(value)"; hp is the heap
RECURSIVE InheritColumns(_, _, _)
InheritColumns(cols, hp, baseCols) ==
  IF baseCols = <<>> THEN [columns |-> cols, heap |-> hp]
  ELSE LET key == Head(baseCols)[1]
           oid == Head(baseCols)[2]
       IN IF DictHas(cols, key)
          THEN InheritColumns(cols, hp, Tail(baseCols))
          ELSE InheritColumns(Append(cols, <<key, Len(hp) + 1>>),
                              Append(hp, copy_copy(hp[oid])), Tail(baseCols))

\* Model.__init_subclass__ for "class name(base): <body>". body.attrs are the
\* Column valued attributes of the class body (attr -> object), body.id an
\* explicit __id__ (or NoId), body.tablename an explicit __tablename__.
\* own_id records whether '__id__' is in vars(cls).
Model_init_subclass(name, body, baseCls, hp) ==
  LET merged == InheritColumns(body.attrs, hp, baseCls.columns)
      id == IF body.id # NoId THEN body.id
            ELSE IF baseCls.id # NoId THEN baseCls.id  \* hasattr(cls, '__id__')
            ELSE name                       \* cls.__module__ + '.' + __name__
  IN [out |-> IF DictHas(merged.columns, "id") THEN "ValueError" ELSE "ok",
      cls |-> [name |-> name, id |-> id, tablename |-> body.tablename,
               columns |-> merged.columns, base |-> baseCls.name,
               own_id |-> body.id # NoId],
      heap |-> merged.heap]

(***************************************************************************)
(* The schema the Database specifications run on, declared with the        *)
(* operators above, and the mapping generated for it:                      *)
(*   class Post(Model):   title = Column('Title'); body = Column('Body')   *)
(*   class Author(Model): name = Column('Name')                            *)
(*                        posts = ForeignKey('Posts', Post)                *)
(*   class Draft(Post):   __id__ = 'Draft'                                 *)
(***************************************************************************)

SchemaHeap ==
  <<Column_init("Title", 1), Column_init("Body", 2), Column_init("Name", 3),
    ForeignKey_init("Posts", 4, "Post")>>

SchemaClasses ==
  LET post == Model_init_subclass("Post",
                [id |-> NoId, tablename |-> NoName,
                 attrs |-> << <<"title", 1>>, <<"body", 2>> >>],
                ModelRoot, SchemaHeap)
      author == Model_init_subclass("Author",
                  [id |-> NoId, tablename |-> NoName,
                   attrs |-> << <<"name", 3>>, <<"posts", 4>> >>],
                  ModelRoot, post.heap)
      draft == Model_init_subclass("Draft",
                 [id |-> "Draft", tablename |-> NoName, attrs |-> <<>>],
                 post.cls, author.heap)
  IN [heap |-> draft.heap,
      classes |-> << <<"Model", ModelRoot>>, <<"Post", post.cls>>,
                     <<"Author", author.cls>>, <<"Draft", draft.cls>> >>]

SchemaModels == {"Post", "Author"}

\* with the subtype of Post
SchemaSubModels == SchemaModels \cup {"Draft"}

\* model.__id__
ModelId(model) == DictGet(SchemaClasses.classes, model).id

\* model.__columns__, with the Column objects in place of their identities
ModelColumns(model) ==
  LET cols == DictGet(SchemaClasses.classes, model).columns
  IN [i \in DOMAIN cols |-> <<cols[i][1], SchemaClasses.heap[cols[i][2]]>>]

\* issubclass(cls, model)
RECURSIVE IsSubclass(_, _)
IsSubclass(cls, model) ==
  \/ cls = model
  \/ /\ cls \notin {"Model", ""}
     /\ IsSubclass(DictGet(SchemaClasses.classes, cls).base, model)

\* the DatabaseMapping of the schema (table and field ids as in the
\* end-to-end scenario of the specification)
SchemaMapping ==
  [database_id |-> 1,
   models |-> << <<"Post", [table_id |-> 10,
                            fields |-> << <<"title", 100>>, <<"body", 101>> >>]>>,
                 <<"Author", [table_id |-> 20,
                              fields |-> << <<"name", 200>>, <<"posts", 201>> >>]>>,
                 <<"Draft", [table_id |-> 30,
                             fields |-> << <<"title", 110>>, <<"body", 111>> >>]>> >>]

(***************************************************************************)
(* mapping.py: ModelMapping.reverse_fields                                 *)
(***************************************************************************)

\* {v: k for k, v in fields.items()}
RECURSIVE InvertDict(_, _)
InvertDict(fields, acc) ==
  IF fields = <<>> THEN acc
  ELSE InvertDict(Tail(fields), DictSet(acc, Head(fields)[2], Head(fields)[1]))

\* ModelMapping.reverse_fields: the new value of the cache _reverse_fields,
\* which is also what the property returns (the cache is never None: it
\* starts as {} in __post_init__)
ModelMapping_reverse_fields(fields, cache) ==
  IF Len(fields) # Len(cache) THEN InvertDict(fields, <<>>) ELSE cache

(***************************************************************************)
(* Values, rows and the stub backend                                       *)
(***************************************************************************)

\* a plain value (not a collection)
Scalar(v) == [kind |-> "scalar", v |-> v]

\* a Python list
PyList(items) == [kind |-> "list", items |-> items]

\* Ref(id, name)
Ref(id, name) == [id |-> id, name |-> name]

\* LinkedRow.__init__(db, model, values, cache): "self._cache = cache or {}"
LinkedRow_init(db, model, values, cache) ==
  [kind |-> "LinkedRow", _db |-> db, _model |-> model, _refs |-> values,
   _cache |-> cache]

\* the link payload of row row_id of the Authors table: rows with an odd id
\* link to post 7, the others link to nothing
LinksOf(row_id) ==
  IF row_id % 2 = 1 THEN <<[id |-> 7, value |-> "x"]>> ELSE <<>>

\* the row the backend holds under (table_id, row_id): "id", "order" and the
\* "field_<id>" keys (the key of a field is its id); table 10 has a field the
\* schema does not declare (999)
TableRow(table_id, row_id) ==
  [id |-> row_id, order |-> "1.0",
   fields |-> IF table_id = 10
              THEN << <<100, Scalar(row_id)>>, <<101, Scalar(row_id)>>,
                      <<999, Scalar(0)>> >>
              ELSE IF table_id = 30
              THEN << <<110, Scalar(row_id)>>, <<111, Scalar(row_id)>> >>
              ELSE << <<200, Scalar(row_id)>>,
                      <<201, PyList(LinksOf(row_id))>> >>]

\* BaserowClient.get_database_table_row; failing are the rows for which the
\* request fails with an ApiError
get_database_table_row(table_id, row_id, failing) ==
  IF row_id \in failing
  THEN [out |-> "ApiError", val |-> <<>>]
  ELSE [out |-> "ok", val |-> TableRow(table_id, row_id)]

(***************************************************************************)
(* model.py: Model.__init__; column.py: hooks and LinkedRow;               *)
(* database.py: Database._load_single, Database._build_model_from_row.     *)
(* Every operator returns its outcome (out: "ok" or the exception raised), *)
(* its value and the single-row requests it issued (gets).                 *)
(***************************************************************************)

RECURSIVE Database_build_model_from_row(_, _, _)

\* Database._load_single once the row request has returned got
Database_load_single_got(model, req, got, failing) ==
  IF got.out # "ok"
  THEN [out |-> got.out, val |-> <<>>, gets |-> req]
  ELSE [Database_build_model_from_row(model, got.val, failing)
          EXCEPT !.gets = req \o @]

\* Database._load_single
Database_load_single(model, row_id, failing) ==
  LET table_id == DictGet(SchemaMapping.models, ModelId(model)).table_id
  IN Database_load_single_got(model,
       <<[op |-> "get", table_id |-> table_id, row_id |-> row_id]>>,
       get_database_table_row(table_id, row_id, failing), failing)

\* the position in _refs of a Python index, 0 when it is out of range
RefPosition(lr, index) ==
  LET n == Len(lr._refs)
  IN IF index >= 0 /\ index < n THEN index + 1
     ELSE IF index < 0 /\ index >= 0 - n THEN n + index + 1
     ELSE 0

\* a __getitem__ that returns what _load_single did without storing it
LinkedRow_getitem_unstored(lr, index, r) ==
  [out |-> r.out, val |-> IF r.out = "ok" THEN r.val ELSE <<>>, lr |-> lr,
   gets |-> r.gets, own |-> <<[index |-> index, ok |-> r.out = "ok"]>>]

\* "self._cache[index] = result = ...; return result", r being what
\* _load_single did
LinkedRow_getitem_loaded(lr, index, r) ==
  IF r.out # "ok"
  THEN [out |-> r.out, val |-> <<>>, lr |-> lr, gets |-> r.gets,
        own |-> <<[index |-> index, ok |-> FALSE]>>]
  ELSE [out |-> "ok", val |-> r.val,
        lr |-> [lr EXCEPT !._cache = DictSet(lr._cache, index, r.val)],
        gets |-> r.gets, own |-> <<[index |-> index, ok |-> TRUE]>>]

\* a __getitem__ without the check for a bound Database
LinkedRow_getitem_unasserted(lr, index, failing) ==
  IF DictHas(lr._cache, index)
  THEN [out |-> "ok", val |-> DictGet(lr._cache, index), lr |-> lr,
        gets |-> <<>>, own |-> <<>>]
  ELSE IF RefPosition(lr, index) = 0
  THEN [out |-> "IndexError", val |-> <<>>, lr |-> lr, gets |-> <<>>,
        own |-> <<>>]
  ELSE LinkedRow_getitem_loaded(lr, index,
         Database_load_single(lr._model, lr._refs[RefPosition(lr, index)].id,
                              failing))

\* LinkedRow.__getitem__; lr is the LinkedRow after the call, own the
\* fetches issued for the LinkedRow's own indexes (gets has them and those of
\* the build of the fetched row) and whether the load returned an instance
LinkedRow_getitem(lr, index, failing) ==
  IF DictHas(lr._cache, index)
  THEN [out |-> "ok", val |-> DictGet(lr._cache, index), lr |-> lr,
        gets |-> <<>>, own |-> <<>>]
  ELSE IF ~lr._db
  THEN [out |-> "AssertionError", val |-> <<>>, lr |-> lr, gets |-> <<>>,
        own |-> <<>>]
  ELSE IF RefPosition(lr, index) = 0
  THEN [out |-> "IndexError", val |-> <<>>, lr |-> lr, gets |-> <<>>,
        own |-> <<>>]
  ELSE LinkedRow_getitem_loaded(lr, index,
         Database_load_single(lr._model, lr._refs[RefPosition(lr, index)].id,
                              failing))

\* nothing produced and nothing requested yet
IterStart == [val |-> <<>>, gets |-> <<>>, own |-> <<>>]

\* LinkedRow.__iter__, run from index i to its end or to the first exception;
\* acc holds the instances produced (val) and the requests issued so far
RECURSIVE LinkedRow_iter(_, _, _, _)
LinkedRow_iter_step(i, acc, r, failing) ==
  IF r.out # "ok"
  THEN [out |-> r.out, val |-> <<>>, lr |-> r.lr, gets |-> acc.gets \o r.gets,
        own |-> acc.own \o r.own]
  ELSE LinkedRow_iter(r.lr, i + 1,
         [val |-> Append(acc.val, r.val), gets |-> acc.gets \o r.gets,
          own |-> acc.own \o r.own], failing)

LinkedRow_iter(lr, i, acc, failing) ==
  IF i >= Len(lr._refs)
  THEN [out |-> "ok", val |-> acc.val, lr |-> lr, gets |-> acc.gets,
        own |-> acc.own]
  ELSE LinkedRow_iter_step(i, acc, LinkedRow_getitem(lr, i, failing), failing)

\* isinstance(value, t.Collection)
IsCollection(value) == value.kind \in {"list", "LinkedRow"}

\* isinstance(item, model)
IsInstance(item, model) ==
  "cls" \in DOMAIN item /\ IsSubclass(item.cls, model)

\* a from_python that accepts a list of instances of the linked model
ForeignKey_from_python_list_accepting(col, value_list) ==
  IF value_list.out # "ok"
  THEN [out |-> value_list.out, val |-> <<>>, gets |-> value_list.gets]
  ELSE IF \E i \in DOMAIN value_list.val :
            ~IsInstance(value_list.val[i], col._model)
  THEN [out |-> "TypeError", val |-> <<>>, gets |-> value_list.gets]
  ELSE [out |-> "ok", val |-> PyList(value_list.val), gets |-> value_list.gets]

\* ForeignKey.from_python after "value_list = list(value)"
ForeignKey_from_python_list(col, value_list) ==
  IF value_list.out # "ok"
  THEN [out |-> value_list.out, val |-> <<>>, gets |-> value_list.gets]
  ELSE IF \E i \in DOMAIN value_list.val :
            ~IsInstance(value_list.val[i], col._model)
  THEN [out |-> "TypeError", val |-> <<>>, gets |-> value_list.gets]
  ELSE [out |-> "NotImplementedError", val |-> <<>>, gets |-> value_list.gets]

\* Column.from_python / ForeignKey.from_python
Column_from_python(col, value, failing) ==
  IF col.cls = "Column"
  THEN [out |-> "ok", val |-> value, gets |-> <<>>]
  ELSE IF ~IsCollection(value)
  THEN [out |-> "TypeError", val |-> <<>>, gets |-> <<>>]
  ELSE ForeignKey_from_python_list(col,
         IF value.kind = "list"
         THEN [out |-> "ok", val |-> value.items, gets |-> <<>>]
         ELSE LinkedRow_iter(value, 0, IterStart, failing))

\* Column.from_baserow / ForeignKey.from_baserow (db is the Database)
Column_from_baserow(col, value) ==
  IF col.cls = "Column" THEN value
  ELSE LinkedRow_init(TRUE, col._model,
         [i \in DOMAIN value.items |-> Ref(value.items[i].id, value.items[i].value)],
         <<>>)

\* the loop over __columns__ of Model.__init__: acc.set are the attributes
\* set on the instance so far, acc.hooks the attributes whose from_python was
\* invoked; h is what the hook of the first column of cols did
RECURSIVE Model_init_loop(_, _, _, _)
Model_init_hooked(cols, kwargs, acc, h, failing) ==
  IF h.out # "ok"
  THEN [out |-> h.out, set |-> acc.set, hooks |-> Append(acc.hooks, Head(cols)[1]),
        gets |-> acc.gets \o h.gets]
  ELSE Model_init_loop(Tail(cols), kwargs,
         [out |-> "ok", set |-> DictSet(acc.set, Head(cols)[1], h.val),
          hooks |-> Append(acc.hooks, Head(cols)[1]),
          gets |-> acc.gets \o h.gets], failing)

Model_init_loop(cols, kwargs, acc, failing) ==
  IF cols = <<>> THEN acc
  ELSE IF ~DictHas(kwargs, Head(cols)[1])
  THEN [acc EXCEPT !.out = "TypeError"]
  ELSE Model_init_hooked(cols, kwargs, acc,
         Column_from_python(Head(cols)[2], DictGet(kwargs, Head(cols)[1]), failing),
         failing)

\* the loop "for key in kwargs" of Model.__init__, after the first loop
Model_init_check(model, id, kwargs, looped) ==
  [out |-> IF /\ looped.out = "ok"
              /\ \E k \in DictKeys(kwargs) : ~DictHas(ModelColumns(model), k)
           THEN "TypeError" ELSE looped.out,
   set |-> looped.set, hooks |-> looped.hooks, gets |-> looped.gets,
   val |-> [cls |-> model, id |-> id, attrs |-> Tail(looped.set)]]

\* Model.__init__(self, id, **kwargs) of class model: val is the instance
Model_init(model, id, kwargs, failing) ==
  Model_init_check(model, id, kwargs,
    Model_init_loop(ModelColumns(model), kwargs,
      [out |-> "ok", set |-> << <<"id", Scalar(id)>> >>, hooks |-> <<>>,
       gets |-> <<>>], failing))

\* Model.as_dict(self): 'id' first, then one entry per declared column with
\* the value of the attribute
Model_as_dict(row) ==
  << <<"id", Scalar(row.id)>> >>
    \o [i \in DOMAIN ModelColumns(row.cls) |->
          <<ModelColumns(row.cls)[i][1],
            DictGet(row.attrs, ModelColumns(row.cls)[i][1])>>]

\* the loop over row.items() of Database._build_model_from_row, mapping
\* being self._mapping.models[model.__id__]
RECURSIVE BuildRecordOf(_, _, _, _)
BuildRecordOf(mapping, model, items, record) ==
  IF items = <<>> THEN record
  ELSE LET field_id == Head(items)[1]
           reverse_fields == ModelMapping_reverse_fields(mapping.fields, <<>>)
       IN IF ~DictHas(reverse_fields, field_id)
          THEN BuildRecordOf(mapping, model, Tail(items), record)
          ELSE LET attr_name == DictGet(reverse_fields, field_id)
                   column == DictGet(ModelColumns(model), attr_name)
               IN BuildRecordOf(mapping, model, Tail(items),
                    DictSet(record, attr_name,
                            Column_from_baserow(column, Head(items)[2])))

\* the same for a Database that holds SchemaMapping
BuildRecord(model, items, record) ==
  BuildRecordOf(DictGet(SchemaMapping.models, ModelId(model)), model, items,
                record)

\* Database._build_model_from_row of a Database that holds the mapping
Database_build_model_from_row_of(mapping, model, row) ==
  Model_init(model, row.id, BuildRecordOf(mapping, model, row.fields, <<>>), {})

\* a build that refuses a row with a field the mapping does not have
Database_build_model_from_row_strict(model, row, failing) ==
  IF \E i \in DOMAIN row.fields :
       row.fields[i][1] \notin
         DictValues(DictGet(SchemaMapping.models, ModelId(model)).fields)
  THEN [out |-> "KeyError", set |-> <<>>, hooks |-> <<>>, gets |-> <<>>,
        val |-> [cls |-> model, id |-> row.id, attrs |-> <<>>]]
  ELSE Model_init(model, row.id, BuildRecord(model, row.fields, <<>>), failing)

\* Database._build_model_from_row: row.pop('order'), row.pop('id'), the
\* record of the mapped fields, then model(record_id, **record)
Database_build_model_from_row(model, row, failing) ==
  Model_init(model, row.id, BuildRecord(model, row.fields, <<>>), failing)

(***************************************************************************)
(* SpecDecl: a module declares Columns and Model subtypes                  *)
(***************************************************************************)

MaxColumns == 2

MaxClasses == 2

ClassNames == <<"A", "B", "C", "D">>

UserNames == {"Title", "Body"}

AttrNames == {"title", "id"}

\* the class bodies tried: no Column attribute, or one, with or without an
\* explicit __id__
ClassBodies(hp) ==
  {[id |-> i, tablename |-> NoName, attrs |-> a] :
     i \in {NoId, "custom"},
     a \in {<<>>} \cup {<< <<k, o>> >> : k \in AttrNames, o \in DOMAIN hp}}

IdleDecl ==
  /\ heap = <<>>
  /\ classes = << <<"Model", ModelRoot>> >>
  /\ uuids = 0
  /\ declOut = "none"

IdleCtor == ctor = <<>>

IdleMap == mm = <<>> /\ mmRead = <<>>

IdleLink == linked = <<>> /\ lrOut = <<>> /\ fetched = <<>>

IdleSave == saved = <<>> /\ saveLog = <<>> /\ saveOut = <<>>

IdleGen == remote = <<>> /\ generated = <<>>

IdleTrans == translated = <<>>

IdleRef == fkeys = <<>>
IdlePair == pair = <<>>

IdleQuery ==
  /\ database = <<>> /\ backend = <<>> /\ query = <<>> /\ requests = <<>>
  /\ yielded = <<>> /\ qOut = <<>> /\ iterated = FALSE

InitDecl ==
  /\ IdleDecl /\ IdleCtor /\ IdleMap /\ IdleLink /\ IdleSave /\ IdleQuery /\ IdleGen
  /\ IdleTrans /\ IdleRef /\ IdlePair

\* Column(user_name)
NewColumn ==
  /\ uuids < MaxColumns
  /\ \E user_name \in UserNames :
       heap' = Append(heap, Column_init(user_name, uuids + 1))
  /\ uuids' = uuids + 1
  /\ declOut' = "column"
  /\ UNCHANGED classes
  /\ UNCHANGED notDeclVars

\* class <name>(<base>): <body>
DeclareModel ==
  /\ Len(classes) <= MaxClasses
  /\ \E base \in DictKeys(classes), body \in ClassBodies(heap) :
       LET name == ClassNames[Len(classes)]
           r == Model_init_subclass(name, body, DictGet(classes, base), heap)
       IN /\ declOut' = r.out
          /\ IF r.out = "ok"
             THEN classes' = Append(classes, <<name, r.cls>>) /\ heap' = r.heap
             ELSE UNCHANGED <<classes, heap>>
  /\ UNCHANGED uuids
  /\ UNCHANGED notDeclVars

NextDecl == NewColumn \/ DeclareModel

SpecDecl == InitDecl /\ [][NextDecl]_vars

\* C8: any two different Column instances have different placeholder IDs,
\* also when one of them is the column a Model subtype received from a base
\* Model through inheritance merging.
C8_PlaceholderIdsDistinct ==
  \A i, j \in DOMAIN heap : i # j => Column_id(heap[i]) # Column_id(heap[j])

\* the Column() constructions alone give distinct placeholder IDs
C8_ConstructedIdsDistinct ==
  \A i, j \in DOMAIN heap :
    (i # j /\ Column_id(heap[i]) = Column_id(heap[j])) =>
      \E c \in DictValues(classes) :
        c.base # "Model" /\ (i \in DictValues(c.columns) \/ j \in DictValues(c.columns))

(***************************************************************************)
(* SpecCtor: a caller constructs instances, Model(id, **kwargs)            *)
(***************************************************************************)

MaxKwargs == 3

KwargNames == {"title", "body", "name", "posts", "zzz"}

KwargValues ==
  {Scalar(1), PyList(<<>>),
   PyList(<<[cls |-> "Post", id |-> None, attrs |-> <<>>]>>),
   PyList(<<[cls |-> "Post", id |-> None, attrs |-> <<>>],
            [cls |-> "Author", id |-> None, attrs |-> <<>>]>>)}

\* the field ids of the raw rows of the Posts table: those of the mapping
\* and one the mapping does not have
RowFieldIds == {100, 101, 999}

\* the raw rows tried: with or without 'order', with any of the fields in
\* any order
RawRows ==
  {[id |-> 5, order |-> order, fields |-> fields] :
     order \in {NoName, "1.0"},
     fields \in DictsOver(RowFieldIds, {Scalar(1), Scalar(2)},
                          Cardinality(RowFieldIds))}

NoRow == [id |-> None, order |-> NoName, fields |-> <<>>]

InitCtor ==
  /\ IdleDecl /\ IdleCtor /\ IdleMap /\ IdleLink /\ IdleSave /\ IdleQuery /\ IdleGen
  /\ IdleTrans /\ IdleRef /\ IdlePair

\* one call Model(id, **kwargs); the state keeps its input, outcome and trace
Construct ==
  /\ ctor = <<>>
  /\ \E model \in SchemaModels, id \in {None, 1},
        kwargs \in DictsOver(KwargNames, KwargValues, MaxKwargs) :
       LET r == Model_init(model, id, kwargs, {})
       IN ctor' = [op |-> "init", row |-> NoRow,
                   model |-> model, kwargs |-> kwargs, out |-> r.out,
                   hooks |-> r.hooks, set |-> r.set,
                   dict |-> IF r.out = "ok" THEN Model_as_dict(r.val)
                            ELSE <<>>]
  /\ UNCHANGED notCtorVars

\* one call database._build_model_from_row(Post, row): kwargs is the record
\* it passes to Post(record_id, **record)
Build ==
  /\ ctor = <<>>
  /\ \E row \in RawRows :
       LET r == Database_build_model_from_row("Post", row, {})
       IN ctor' = [op |-> "build", row |-> row,
                   model |-> "Post",
                   kwargs |-> BuildRecord("Post", row.fields, <<>>),
                   out |-> r.out, hooks |-> r.hooks, set |-> r.set,
                   dict |-> IF r.out = "ok" THEN Model_as_dict(r.val)
                            ELSE <<>>]
  /\ UNCHANGED notCtorVars

NextCtor == Construct \/ Build

SpecCtor == InitCtor /\ [][NextCtor]_vars

\* the keyword set of the last call misses a declared attribute or contains
\* an undeclared one
CtorMismatch ==
  /\ ctor # <<>>
  /\ DictKeys(ctor.kwargs) #
       {ModelColumns(ctor.model)[i][1] : i \in DOMAIN ModelColumns(ctor.model)}

\* C7: constructing an instance with a keyword set that misses a declared
\* attribute or contains an undeclared attribute fails before any Column's
\* from_python hook has been invoked and before any declared attribute has
\* been set on the instance.
C7_MismatchFailsBeforeAnyHook ==
  CtorMismatch =>
    /\ ctor.out = "TypeError"
    /\ ctor.hooks = <<>>
    /\ Tail(ctor.set) = <<>>

\* what the code does guarantee: such a construction never succeeds
C7_MismatchNeverSucceeds == CtorMismatch => ctor.out # "ok"

(***************************************************************************)
(* SpecMapping: a caller changes the fields of one ModelMapping and reads  *)
(* its reverse_fields. Field ids stay distinct per attribute (the fields   *)
(* of a table have distinct ids), so that an exact inverse exists.         *)
(***************************************************************************)

MaxFields == 2

MapAttrs == {"title", "body", "extra"}

MapFieldIds == {100, 101, 102}

NoRead == [done |-> FALSE, value |-> <<>>]

\* ModelMapping(table_id, fields): __post_init__ sets _reverse_fields = {}
InitMapping ==
  /\ IdleDecl /\ IdleCtor /\ IdleLink /\ IdleSave /\ IdleQuery /\ IdleGen
  /\ IdleTrans /\ IdleRef /\ IdlePair
  /\ \E fields \in DictsOver(MapAttrs, MapFieldIds, MaxFields) :
       /\ Cardinality(DictValues(fields)) = Len(fields)
       /\ mm = [table_id |-> 10, fields |-> fields, _reverse_fields |-> <<>>]
  /\ mmRead = NoRead

\* mapping.fields[attr] = field_id, for a new attr
AddField ==
  /\ Len(mm.fields) < MaxFields
  /\ \E attr \in MapAttrs \ DictKeys(mm.fields),
        field_id \in MapFieldIds \ DictValues(mm.fields) :
       mm' = [mm EXCEPT !.fields = DictSet(@, attr, field_id)]
  /\ mmRead' = NoRead
  /\ UNCHANGED notMapVars

\* del mapping.fields[attr]
RemoveField ==
  /\ \E attr \in DictKeys(mm.fields) :
       mm' = [mm EXCEPT !.fields = DictDel(@, attr)]
  /\ mmRead' = NoRead
  /\ UNCHANGED notMapVars

\* mapping.fields[attr] = field_id, for an attr the mapping has
ReplaceField ==
  /\ \E attr \in DictKeys(mm.fields),
        field_id \in MapFieldIds \ DictValues(mm.fields) :
       mm' = [mm EXCEPT !.fields = DictSet(@, attr, field_id)]
  /\ mmRead' = NoRead
  /\ UNCHANGED notMapVars

\* mapping.reverse_fields
ReadReverseFields ==
  /\ mm' = [mm EXCEPT !._reverse_fields =
                        ModelMapping_reverse_fields(mm.fields, mm._reverse_fields)]
  /\ mmRead' = [done |-> TRUE, value |-> mm'._reverse_fields]
  /\ UNCHANGED notMapVars

NextMapping == AddField \/ RemoveField \/ ReplaceField \/ ReadReverseFields

SpecMapping == InitMapping /\ [][NextMapping]_vars

\* rev is exactly the inverse of fields
IsInverse(rev, fields) ==
  /\ DictKeys(rev) = DictValues(fields)
  /\ \A i \in DOMAIN fields : DictGet(rev, fields[i][2]) = fields[i][1]

\* C9: after any sequence of additions, removals and replacements of entries
\* of fields, every read of reverse_fields returns exactly the inverse of the
\* current fields.
C9_ReverseFieldsIsInverse ==
  mmRead.done => IsInverse(mmRead.value, mm.fields)

\* what the length check does give: a read returns the inverse whenever the
\* cache has another size than fields
C9_InverseWhenSizeDiffers ==
  [][(mmRead'.done /\ Len(mm.fields) # Len(mm._reverse_fields))
       => IsInverse(mmRead'.value, mm'.fields)]_vars

(***************************************************************************)
(* SpecLinked: a caller indexes and iterates one LinkedRow; during an      *)
(* access the single-row requests of the transport succeed, or fail        *)
(***************************************************************************)

MaxRefs == 2

\* the rows the LinkedRows refer to, in the order of the refs
RefIds == <<7, 8, 7, 8>>

\* the index values tried: the valid ones, -1 and one that is out of range
IndexValues == (0 - 1) .. MaxRefs

\* the instance a caller seeds the cache with
SeedInstance(model) == [cls |-> model, id |-> 7, attrs |-> <<>>]

\* history of the fetches issued for one index value: how many (2 stands for
\* two or more), whether a load returned an instance, and whether a fetch
\* was issued after such a load
NoFetch == [n |-> 0, ok |-> FALSE, again |-> FALSE]

\* the history after the fetches own (in order)
RECURSIVE Record(_, _)
Record(hist, own) ==
  IF own = <<>> THEN hist
  ELSE Record([hist EXCEPT ![Head(own).index] =
                 [n |-> IF @.n = 0 THEN 1 ELSE 2,
                  ok |-> @.ok \/ Head(own).ok,
                  again |-> @.again \/ @.ok]],
              Tail(own))

\* LinkedRow(db, model, values, cache), db being None for a detached one
InitLinked ==
  /\ IdleDecl /\ IdleCtor /\ IdleMap /\ IdleSave /\ IdleQuery /\ IdleGen
  /\ IdleTrans /\ IdleRef /\ IdlePair
  /\ \E db \in BOOLEAN, model \in SchemaModels, n \in 0 .. MaxRefs,
        seeded \in BOOLEAN :
       linked = LinkedRow_init(db, model, [i \in 1 .. n |-> Ref(RefIds[i], "x")],
                  IF seeded THEN << <<0, SeedInstance(model)>> >> ELSE <<>>)
  /\ lrOut = [op |-> "none", out |-> "ok", gets |-> <<>>, index |-> 0,
              val |-> <<>>]
  /\ fetched = [i \in IndexValues |-> NoFetch]

\* the rows whose single-row request fails during an access
Failing(fail) == IF fail THEN {RefIds[i] : i \in DOMAIN RefIds} ELSE {}

\* linked[index]
GetItem ==
  /\ \E index \in IndexValues, fail \in BOOLEAN :
       \E r \in {LinkedRow_getitem(linked, index, Failing(fail))} :
          /\ linked' = r.lr
          /\ lrOut' = [op |-> "getitem", out |-> r.out, gets |-> r.gets,
                       index |-> index,
                       val |-> IF r.out = "ok" THEN <<r.val>> ELSE <<>>]
          /\ fetched' = Record(fetched, r.own)
  /\ UNCHANGED notLinkVars

\* list(linked): one full iteration, to its end or to the first exception
Iterate ==
  /\ \E fail \in BOOLEAN :
       \E r \in {LinkedRow_iter(linked, 0, IterStart, Failing(fail))} :
          /\ linked' = r.lr
          /\ lrOut' = [op |-> "iter", out |-> r.out, gets |-> r.gets,
                       index |-> 0, val |-> <<>>]
          /\ fetched' = Record(fetched, r.own)
  /\ UNCHANGED notLinkVars

NextLinked == GetItem \/ Iterate

SpecLinked == InitLinked /\ [][NextLinked]_vars

\* every index 0 .. len - 1 is in the cache
AllCached == \A i \in 0 .. Len(linked._refs) - 1 : DictHas(linked._cache, i)

\* C3 (as claimed): the single-row fetch is issued at most once per index of
\* the collection for the lifetime of the LinkedRow.
C3_AtMostOneFetchPerIndex == \A i \in IndexValues : fetched[i].n <= 1

\* C3 (amended): per index value (a negative index is a cache key of its
\* own), once a load has returned an instance no further fetch is issued for
\* that index value, only a load that failed is fetched again; a full
\* iteration that succeeds leaves every index cached, and a full iteration
\* over a LinkedRow whose indexes are all cached issues no request.
C3_NoFetchAfterLoad ==
  /\ [](\A i \in IndexValues : ~fetched[i].again)
  /\ []((lrOut.op = "iter" /\ lrOut.out = "ok") => AllCached)
  /\ [][(AllCached /\ lrOut'.op = "iter")
          => (fetched' = fetched /\ lrOut'.gets = <<>>)]_vars

\* a full iteration over a non-empty LinkedRow has issued no request, after
\* an index was loaded at the second attempt (the first one failed)
C3_Witness ==
  /\ lrOut.op = "iter" /\ lrOut.out = "ok" /\ lrOut.gets = <<>>
  /\ linked._refs # <<>>
  /\ \E i \in IndexValues : fetched[i].ok /\ fetched[i].n = 2

(***************************************************************************)
(* database.py: Database.save                                              *)
(***************************************************************************)

\* a serialization that sends a blank for every value
Column_to_baserow_blank(col, value) == [out |-> "ok", val |-> Scalar(0)]

\* Column.to_baserow / ForeignKey.to_baserow
Column_to_baserow(col, value) ==
  IF col.cls = "Column" THEN [out |-> "ok", val |-> value]
  ELSE IF value.kind # "LinkedRow" THEN [out |-> "AssertionError", val |-> <<>>]
  ELSE [out |-> "ok",
        val |-> PyList([i \in DOMAIN value._refs |-> value._refs[i].id])]

\* the loop over row.__columns__ of Database.save: record maps "field_<id>"
\* to the serialized attribute
RECURSIVE Database_save_record(_, _, _)
Database_save_record(row, cols, record) ==
  IF cols = <<>> THEN [out |-> "ok", val |-> record]
  ELSE LET key == Head(cols)[1]
           fields == DictGet(SchemaMapping.models, ModelId(row.cls)).fields
           v == Column_to_baserow(Head(cols)[2], DictGet(row.attrs, key))
       IN IF v.out # "ok" THEN [out |-> v.out, val |-> <<>>]
          ELSE Database_save_record(row, Tail(cols),
                 DictSet(record, FieldRef(DictGet(fields, key)), v.val))

\* BaserowClient.create_database_table_row / update_database_table_row:
\* the request, and what the backend answers (resp.fail: the request fails;
\* resp.id: the id of the row created)
create_database_table_row_swallowing(table_id, record, resp) ==
  [req |-> [op |-> "create", table_id |-> table_id, row_id |-> None,
            record |-> record, ok |-> ~resp.fail, ret |-> resp.id],
   out |-> "ok", id |-> resp.id]

create_database_table_row(table_id, record, resp) ==
  [req |-> [op |-> "create", table_id |-> table_id, row_id |-> None,
            record |-> record, ok |-> ~resp.fail, ret |-> resp.id],
   out |-> IF resp.fail THEN "ApiError" ELSE "ok", id |-> resp.id]

update_database_table_row(table_id, row_id, record, resp) ==
  [req |-> [op |-> "update", table_id |-> table_id, row_id |-> row_id,
            record |-> record, ok |-> ~resp.fail, ret |-> None],
   out |-> IF resp.fail THEN "ApiError" ELSE "ok"]

\* a save that does not keep the id of the row created
Database_save_created_dropped(row, created) ==
  [out |-> created.out, row |-> row, reqs |-> <<created.req>>]

\* "row.id = self._client.create_database_table_row(...)['id']"
Database_save_created(row, created) ==
  [out |-> created.out,
   row |-> IF created.out = "ok" THEN [row EXCEPT !.id = created.id] ELSE row,
   reqs |-> <<created.req>>]

\* "self._client.update_database_table_row(...)"
Database_save_updated(row, updated) ==
  [out |-> updated.out, row |-> row, reqs |-> <<updated.req>>]

\* Database.save once the record is serialized
Database_save_send(row, record, resp) ==
  LET table_id == DictGet(SchemaMapping.models, ModelId(row.cls)).table_id
  IN IF record.out # "ok" THEN [out |-> record.out, row |-> row, reqs |-> <<>>]
     ELSE IF row.id = None
     THEN Database_save_created(row,
            create_database_table_row(table_id, record.val, resp))
     ELSE Database_save_updated(row,
            update_database_table_row(table_id, row.id, record.val, resp))

\* Database.save(row): the row after the call and the requests issued
Database_save(row, resp) ==
  Database_save_send(row,
    Database_save_record(row, ModelColumns(row.cls), <<>>), resp)

(***************************************************************************)
(* SpecSave: a caller saves one Post instance again and again, changing    *)
(* an attribute in between; the backend answers or fails                   *)
(***************************************************************************)

MaxSaves == 3

\* the ids the backend gives to created rows
NewIds == {41, 42}

\* the attribute values tried
SaveValues == {1, 2}

\* Post(title=..., body=...), new (id None) or as loaded from row 5
InitSave ==
  /\ IdleDecl /\ IdleCtor /\ IdleMap /\ IdleLink /\ IdleQuery /\ IdleGen
  /\ IdleTrans /\ IdleRef /\ IdlePair
  /\ \E id \in {None, 5}, v \in SaveValues :
       saved = Model_init("Post", id,
                 << <<"title", Scalar(v)>>, <<"body", Scalar(0)>> >>, {}).val
  /\ saveLog = <<>>
  /\ saveOut = [calls |-> 0, out |-> "ok"]

\* db.save(saved)
Save ==
  /\ saveOut.calls < MaxSaves
  /\ \E fail \in BOOLEAN, id \in NewIds :
       \E r \in {Database_save(saved, [fail |-> fail, id |-> id])} :
          /\ saved' = r.row
          /\ saveLog' = saveLog \o r.reqs
          /\ saveOut' = [calls |-> saveOut.calls + 1, out |-> r.out]
  /\ UNCHANGED notSaveVars

\* saved.title = v
Assign ==
  /\ \E v \in SaveValues :
       saved' = [saved EXCEPT !.attrs = DictSet(@, "title", Scalar(v))]
  /\ UNCHANGED <<saveLog, saveOut>>
  /\ UNCHANGED notSaveVars

NextSave == Save \/ Assign

SpecSave == InitSave /\ [][NextSave]_vars

\* C5: a successful save of an instance without id issues exactly one create
\* (no update) and assigns the returned id; a successful save of an instance
\* with an id issues exactly one update against that id (no create); hence
\* after a successful create every later request is an update against the
\* id the create returned.
C5_CreateOnceThenUpdate ==
  /\ [][(saveOut'.calls # saveOut.calls /\ saveOut'.out = "ok")
          => /\ Len(saveLog') = Len(saveLog) + 1
             /\ SubSeq(saveLog', 1, Len(saveLog)) = saveLog
             /\ LET req == saveLog'[Len(saveLog')]
                IN /\ req.table_id = 10
                   /\ IF saved.id = None
                      THEN req.op = "create" /\ saved'.id = req.ret
                      ELSE /\ req.op = "update" /\ req.row_id = saved.id
                           /\ saved'.id = saved.id]_vars
  /\ [](\A i, j \in DOMAIN saveLog :
          (i < j /\ saveLog[i].op = "create" /\ saveLog[i].ok)
            => (saveLog[j].op = "update" /\ saveLog[j].row_id = saveLog[i].ret))

\* a first save created the row and a second one updated it
C5_Witness ==
  /\ Len(saveLog) >= 2
  /\ saveLog[1].op = "create" /\ saveLog[1].ok
  /\ saveLog[2].op = "update" /\ saveLog[2].ok /\ saveLog[2].row_id = saved.id

(***************************************************************************)
(* filter.py: Filter; client.py: list_database_table_rows and              *)
(* paginated_database_table_rows                                           *)
(***************************************************************************)

\* Filter(field, filter, value)
Filter(field, mode, value) == [field |-> field, filter |-> mode, value |-> value]

Digits == <<"0", "1", "2", "3", "4", "5", "6", "7", "8", "9">>

\* str(n) of a natural number
RECURSIVE str(_)
str(n) == IF n < 10 THEN Digits[n + 1] ELSE str(n \div 10) \o Digits[(n % 10) + 1]

\* an Optional[str] that is None (str never returns it)
NoStr == ""

\* the key of a query parameter: 'page', 'size', or
\* f'filter__{field}__{mode}'
Param(name) == [kind |-> name, field |-> "", mode |-> ""]

\* Filter.to_query_parameter (the values are numbers or None)
Filter_to_query_parameter(f) ==
  <<[kind |-> "filter__", field |-> f.field, mode |-> f.filter],
    IF f.value = None THEN NoStr ELSE str(f.value)>>

\* dict(f.to_query_parameter() for f in filter)
RECURSIVE FilterParams(_, _)
FilterParams(filter, params) ==
  IF filter = <<>> THEN params
  ELSE LET kv == Filter_to_query_parameter(Head(filter))
       IN FilterParams(Tail(filter), DictSet(params, kv[1], kv[2]))

\* the request list_database_table_rows sends: the table of the URL and
\* params (only filter, page and size are ever passed by the ORM)
ListRequest(table_id, filter, page, size) ==
  LET p1 == FilterParams(filter, <<>>)
      p2 == IF page # None THEN DictSet(p1, Param("page"), str(page)) ELSE p1
      p3 == IF size # None THEN DictSet(p2, Param("size"), str(size)) ELSE p2
  IN [op |-> "list", table_id |-> table_id, params |-> p3]

\* what the backend be answers to the request for a page: a failure, or
\* the row ids of the page and whether there is a next page ('next' is a
\* URL or null)
Respond(be, page) ==
  LET p == IF page = None THEN 1 ELSE page
  IN IF p \in DOMAIN be THEN be[p]
     ELSE [fail |-> FALSE, results |-> <<>>, next |-> FALSE]

\* a client whose first Page always names a second page
list_database_table_rows_first_has_next(be, page) ==
  LET response == Respond(be, page)
      pg == IF page = None THEN 1 ELSE page
  IN IF response.fail THEN [out |-> "ApiError", results |-> <<>>, next |-> None]
     ELSE [out |-> "ok", results |-> response.results,
           next |-> IF response.next \/ pg = 1 THEN pg + 1 ELSE None]

\* BaserowClient.list_database_table_rows: the Page built from the response
list_database_table_rows(be, page) ==
  LET response == Respond(be, page)
      pg == IF page = None THEN 1 ELSE page
  IN IF response.fail THEN [out |-> "ApiError", results |-> <<>>, next |-> None]
     ELSE [out |-> "ok", results |-> response.results,
           next |-> IF response.next THEN pg + 1 ELSE None]

\* the generator paginated_database_table_rows: state is "start" before
\* its first next(), "suspended" at its yield, "done" once it has returned
\* or raised; next is page.next of the page it yielded
Paginator(table_id, filter, size) ==
  [state |-> "start", table_id |-> table_id, filter |-> filter, size |-> size,
   page_number |-> None, next |-> None]

NoPaginator == [state |-> "none", table_id |-> None, filter |-> <<>>,
                size |-> None, page_number |-> None, next |-> None]

\* the body of "while True" of the generator, from its top; reqs are the
\* requests it has issued since it was resumed
RECURSIVE paginated_loop(_, _, _)
\* a generator that could be resumed after the request failed
paginated_listed_resumable(pag, be, reqs, page) ==
  IF page.out # "ok"
  THEN [out |-> page.out, results |-> <<>>, pag |-> pag, reqs |-> reqs]
  ELSE IF page.results # <<>>
  THEN [out |-> "yield", results |-> page.results,
        pag |-> [pag EXCEPT !.state = "suspended", !.next = page.next],
        reqs |-> reqs]
  ELSE IF page.next = None
  THEN [out |-> "StopIteration", results |-> <<>>,
        pag |-> [pag EXCEPT !.state = "done"], reqs |-> reqs]
  ELSE paginated_loop([pag EXCEPT !.page_number = page.next], be, reqs)

paginated_listed(pag, be, reqs, page) ==
  IF page.out # "ok"
  THEN [out |-> page.out, results |-> <<>>,
        pag |-> [pag EXCEPT !.state = "done"], reqs |-> reqs]
  ELSE IF page.results # <<>>
  THEN [out |-> "yield", results |-> page.results,
        pag |-> [pag EXCEPT !.state = "suspended", !.next = page.next],
        reqs |-> reqs]
  ELSE IF page.next = None
  THEN [out |-> "StopIteration", results |-> <<>>,
        pag |-> [pag EXCEPT !.state = "done"], reqs |-> reqs]
  ELSE paginated_loop([pag EXCEPT !.page_number = page.next], be, reqs)

paginated_loop(pag, be, reqs) ==
  paginated_listed(pag, be,
    Append(reqs, ListRequest(pag.table_id, pag.filter, pag.page_number, pag.size)),
    list_database_table_rows(be, pag.page_number))

\* next(paginator)
paginated_database_table_rows(pag, be) ==
  IF pag.state = "done"
  THEN [out |-> "StopIteration", results |-> <<>>, pag |-> pag, reqs |-> <<>>]
  ELSE IF pag.state = "start" THEN paginated_loop(pag, be, <<>>)
  ELSE IF pag.next = None
  THEN [out |-> "StopIteration", results |-> <<>>,
        pag |-> [pag EXCEPT !.state = "done"], reqs |-> <<>>]
  ELSE paginated_loop([pag EXCEPT !.page_number = pag.next], be, <<>>)

(***************************************************************************)
(* database.py: ColumnPlaceholderTranslator, Database.select,              *)
(* Database._preprocess_filter, Query                                      *)
(***************************************************************************)

\* Database.__init__: the mapping given, and an empty translator that has
\* visited no model
Database_init ==
  [_translator |-> <<>>, _visited |-> {}, _mapping |-> SchemaMapping]

\* the loop of ColumnPlaceholderTranslator.visit
RECURSIVE VisitColumns(_, _, _)
VisitColumns(translator, cols, fields) ==
  IF cols = <<>> THEN translator
  ELSE VisitColumns(DictSet(translator, Column_id(Head(cols)[2]),
                            DictGet(fields, Head(cols)[1])),
                    Tail(cols), fields)

\* a visit that registers nothing
ColumnPlaceholderTranslator_visit_nothing(d, model) == d

\* ColumnPlaceholderTranslator.visit
ColumnPlaceholderTranslator_visit(d, model) ==
  IF model \in d._visited THEN d
  ELSE [d EXCEPT
          !._translator =
             VisitColumns(d._translator, ModelColumns(model),
                          DictGet(d._mapping.models, ModelId(model)).fields),
          !._visited = d._visited \cup {model}]

\* a translation that clears the value of a filter it does not translate
Database_preprocess_filter_clearing(d, filter) ==
  IF DictHas(d._translator, filter.field)
  THEN [filter EXCEPT !.field = FieldRef(DictGet(d._translator, filter.field))]
  ELSE [filter EXCEPT !.value = None]

\* Database._preprocess_filter
Database_preprocess_filter(d, filter) ==
  IF DictHas(d._translator, filter.field)
  THEN [filter EXCEPT !.field = FieldRef(DictGet(d._translator, filter.field))]
  ELSE filter

NoItems == [some |-> FALSE, items |-> <<>>]

\* Query.__init__; _page_items is None (some is FALSE) or an iterator over
\* the rows of a page (items are the rows it has not produced yet)
Query_init(d, model) ==
  [_model |-> model, _mapping |-> DictGet(d._mapping.models, ModelId(model)),
   _filters |-> <<>>, _page_size |-> None, _paginator |-> NoPaginator,
   _page_items |-> NoItems]

\* no Query has been created yet
NoQuery == [Query_init(Database_init, "Post") EXCEPT !._model = ""]

\* a select that takes the fields it registers out of the mapping
Database_select_popping(d, model) ==
  [db |-> [ColumnPlaceholderTranslator_visit(d, model) EXCEPT
             !._mapping.models =
                DictSet(@, ModelId(model),
                        [DictGet(@, ModelId(model)) EXCEPT !.fields = <<>>])],
   q |-> Query_init(d, model)]

\* Database.select: the Database after the call and the new Query
Database_select(d, model) ==
  [db |-> ColumnPlaceholderTranslator_visit(d, model), q |-> Query_init(d, model)]

\* Query._begin
Query_begin(q) ==
  [q EXCEPT !._paginator = Paginator(q._mapping.table_id, q._filters, None)]

\* a Query that takes the fetch of a page for its execution
Query_executed_by_page(q) == q._page_items.some

\* Query.executed
Query_executed(q) == q._paginator.state # "none"

\* "for filter in filters: self._filters.append(...)"
RECURSIVE AppendFilters(_, _, _)
AppendFilters(d, filters, acc) ==
  IF filters = <<>> THEN acc
  ELSE AppendFilters(d, Tail(filters),
                     Append(acc, Database_preprocess_filter(d, Head(filters))))

\* Query.filter(*filters)
Query_filter(q, d, filters) ==
  IF Query_executed(q) THEN [out |-> "RuntimeError", q |-> q]
  ELSE [out |-> "ok", q |-> [q EXCEPT !._filters = AppendFilters(d, filters, @)]]

\* Query.page_size(page_size)
Query_page_size(q, page_size) ==
  IF Query_executed(q) THEN [out |-> "RuntimeError", q |-> q]
  ELSE [out |-> "ok", q |-> [q EXCEPT !._page_size = page_size]]

\* a translation that rewrites the field of the filter object it is given
Database_preprocess_filter_in_place(d, objs, ref) ==
  IF DictHas(d._translator, objs[ref].field)
  THEN [objs |-> [objs EXCEPT ![ref] = Database_preprocess_filter(d, objs[ref])],
        ref |-> ref]
  ELSE [objs |-> objs, ref |-> ref]

\* Database._preprocess_filter on Filter objects: objs are the Filter
\* objects that exist, ref the one passed; "filter = copy.copy(filter)"
\* makes a new object, and the object returned is ref of the result
Database_preprocess_filter_at(d, objs, ref) ==
  IF DictHas(d._translator, objs[ref].field)
  THEN [objs |-> Append(objs, Database_preprocess_filter(d, objs[ref])),
        ref |-> Len(objs) + 1]
  ELSE [objs |-> objs, ref |-> ref]

NoInstance == [cls |-> "", id |-> None, attrs |-> <<>>]

\* the "while True" loop of Query.__next__: out is "row" when it breaks
\* with a row, else the exception next(self._paginator) raised
RECURSIVE Query_next_loop(_, _, _)
Query_next_paged(q, be, reqs, r) ==
  IF r.out # "yield"
  THEN [out |-> r.out, row |-> None, q |-> [q EXCEPT !._paginator = r.pag],
        reqs |-> reqs \o r.reqs]
  ELSE Query_next_loop(
         [q EXCEPT !._paginator = r.pag,
                   !._page_items = [some |-> TRUE, items |-> r.results]],
         be, reqs \o r.reqs)

Query_next_loop(q, be, reqs) ==
  IF ~q._page_items.some
  THEN Query_next_paged(q, be, reqs,
         paginated_database_table_rows(q._paginator, be))
  ELSE IF q._page_items.items # <<>>
  THEN [out |-> "row", row |-> Head(q._page_items.items),
        q |-> [q EXCEPT !._page_items.items = Tail(@)], reqs |-> reqs]
  ELSE Query_next_loop([q EXCEPT !._page_items = NoItems], be, reqs)

\* "return self._db._build_model_from_row(self._model, row)", built being
\* what _build_model_from_row did
Query_next_built(r, built) ==
  [out |-> built.out, row |-> r.row, q |-> r.q, reqs |-> r.reqs,
   val |-> IF built.out = "ok" THEN built.val ELSE NoInstance,
   gets |-> built.gets]

\* Query.__next__ after the loop; the row of the page is the row the
\* backend holds under its id
Query_next_looped(r) ==
  IF r.out # "row"
  THEN [out |-> r.out, row |-> None, q |-> r.q, reqs |-> r.reqs,
        val |-> NoInstance, gets |-> <<>>]
  ELSE Query_next_built(r,
         Database_build_model_from_row(r.q._model,
           TableRow(r.q._mapping.table_id, r.row), {}))

\* Query.__next__: the Query after the call, the list requests (reqs) and
\* single-row requests (gets) issued, the row taken from the page (row),
\* the instance returned (val) or the exception raised (out)
Query_next(q, be) ==
  Query_next_looped(
    Query_next_loop(IF q._paginator.state = "none" THEN Query_begin(q) ELSE q,
                    be, <<>>))

\* Query.first after "self.page_size(1)": "try: return next(self) except
\* StopIteration: raise NoRowReturned"
Query_first_next(r) ==
  [r EXCEPT !.out = IF @ = "StopIteration" THEN "NoRowReturned" ELSE @]

\* a first that does not look at executed
Query_first_unchecked(q, be) ==
  Query_first_next(Query_next(Query_page_size(q, 1).q, be))

\* Query.first
Query_first(q, be) ==
  IF Query_executed(q)
  THEN [out |-> "RuntimeError", row |-> None, q |-> q, reqs |-> <<>>,
        val |-> NoInstance, gets |-> <<>>]
  ELSE Query_first_next(Query_next(Query_page_size(q, 1).q, be))

(***************************************************************************)
(* SpecQuery: a caller selects a model, narrows the Query, and iterates    *)
(* it; the backend holds a fixed sequence of pages, the last of which      *)
(* reports no next page or fails; single-row requests succeed              *)
(***************************************************************************)

MaxPages == 2

MaxFilters == 2

\* the numbers of rows of a page
PageLens == {0, 2}

\* the page sizes a caller asks for
PageSizes == {2}

\* the filters a caller passes: two on the placeholder of Post.title that
\* differ in the value only, one on a field reference no column stands for
FilterInputs ==
  {Filter(Column_id(SchemaHeap[1]), "equal", 1),
   Filter(Column_id(SchemaHeap[1]), "equal", 2),
   Filter(FieldRef(999), "empty", None)}

\* the ids of the rows of page p (distinct over the pages)
PageRowIds(p, len) == [i \in 1 .. len |-> 10 * p + i]

\* the backends: k pages, every page but the last reports a next page; the
\* request for the last page fails, or it reports no next page
Backends ==
  UNION {{[p \in 1 .. k |->
             [fail |-> failLast /\ p = k,
              results |-> IF failLast /\ p = k THEN <<>>
                          ELSE PageRowIds(p, lens[p]),
              next |-> p < k]] :
            lens \in [1 .. k -> PageLens], failLast \in BOOLEAN} :
         k \in 1 .. MaxPages}

NoCall == [op |-> "none", out |-> "ok", row |-> None, val |-> NoInstance,
           gets |-> <<>>]

InitQuery ==
  /\ IdleDecl /\ IdleCtor /\ IdleMap /\ IdleLink /\ IdleSave /\ IdleGen
  /\ IdleTrans /\ IdleRef /\ IdlePair
  /\ database = Database_init
  /\ backend \in Backends
  /\ query = NoQuery
  /\ requests = <<>>
  /\ yielded = <<>>
  /\ qOut = NoCall
  /\ iterated = FALSE

\* query = database.select(model)
Select ==
  /\ query._model = ""
  /\ \E model \in SchemaModels :
       \E r \in {Database_select(database, model)} :
          /\ database' = r.db
          /\ query' = r.q
  /\ qOut' = [NoCall EXCEPT !.op = "select"]
  /\ UNCHANGED <<backend, requests, yielded, iterated>>
  /\ UNCHANGED notQueryVars

\* query.filter(f)
QueryFilter ==
  /\ query._model # ""
  /\ Len(query._filters) < MaxFilters \/ Query_executed(query)
  /\ \E f \in FilterInputs :
       \E r \in {Query_filter(query, database, <<f>>)} :
          /\ query' = r.q
          /\ qOut' = [NoCall EXCEPT !.op = "filter", !.out = r.out]
  /\ UNCHANGED <<database, backend, requests, yielded, iterated>>
  /\ UNCHANGED notQueryVars

\* query.page_size(n)
QueryPageSize ==
  /\ query._model # ""
  /\ \E n \in PageSizes :
       \E r \in {Query_page_size(query, n)} :
          /\ query' = r.q
          /\ qOut' = [NoCall EXCEPT !.op = "page_size", !.out = r.out]
  /\ UNCHANGED <<database, backend, requests, yielded, iterated>>
  /\ UNCHANGED notQueryVars

\* next(query)
QueryNext ==
  /\ query._model # ""
  /\ \E r \in {Query_next(query, backend)} :
       /\ query' = r.q
       /\ requests' = requests \o r.reqs
       /\ yielded' = IF r.out = "ok" THEN Append(yielded, r.val.id) ELSE yielded
       /\ qOut' = [op |-> "next", out |-> r.out, row |-> r.row, val |-> r.val,
                   gets |-> r.gets]
  /\ iterated' = TRUE
  /\ UNCHANGED <<database, backend>>
  /\ UNCHANGED notQueryVars

\* query.first()
QueryFirst ==
  /\ query._model # ""
  /\ \E r \in {Query_first(query, backend)} :
       /\ query' = r.q
       /\ requests' = requests \o r.reqs
       /\ yielded' = IF r.out = "ok" THEN Append(yielded, r.val.id) ELSE yielded
       /\ qOut' = [op |-> "first", out |-> r.out, row |-> r.row, val |-> r.val,
                   gets |-> r.gets]
  /\ iterated' = (iterated \/ ~Query_executed(query))
  /\ UNCHANGED <<database, backend>>
  /\ UNCHANGED notQueryVars

\* database.save(row) of the instance the last step returned
QuerySave ==
  /\ qOut.op \in {"next", "first"} /\ qOut.out = "ok"
  /\ saveLog = <<>>
  /\ \E fail \in BOOLEAN :
       \E r \in {Database_save(qOut.val, [fail |-> fail, id |-> None])} :
          saveLog' = r.reqs
  /\ UNCHANGED <<saved, saveOut>>
  /\ UNCHANGED queryVars
  /\ UNCHANGED <<declVars, ctorVars, mapVars, linkVars, genVars, transVars,
                 refVars, pairVars>>

NextQuery ==
  Select \/ QueryFilter \/ QueryPageSize \/ QueryNext \/ QueryFirst \/ QuerySave

SpecQuery == InitQuery /\ [][NextQuery]_vars

\* the rows of the pages the backend has returned for the first n requests
RECURSIVE PageRows(_, _)
PageRows(be, n) ==
  IF n = 0 THEN <<>>
  ELSE PageRows(be, n - 1) \o
       (IF n \in DOMAIN be /\ ~be[n].fail THEN be[n].results ELSE <<>>)

\* the pagination has ended: the paginator is done and no page is open
Exhausted == query._paginator.state = "done" /\ ~query._page_items.some

\* C1: filter and page_size succeed while no iteration step of the Query
\* has been taken; once one has been taken they fail with the usage error
\* (RuntimeError) and leave the filters and the page size unchanged.
C1_MutationOnlyBeforeExecution ==
  [][qOut'.op \in {"filter", "page_size"}
       => IF iterated
          THEN /\ qOut'.out = "RuntimeError"
               /\ query'._filters = query._filters
               /\ query'._page_size = query._page_size
          ELSE qOut'.out = "ok"]_vars

\* filter was refused after an iteration step that failed at its first
\* request (no page was ever fetched)
C1_Witness ==
  /\ iterated /\ qOut.op = "filter" /\ qOut.out = "RuntimeError"
  /\ Len(requests) = 1 /\ backend[1].fail
  /\ query._filters # <<>>

\* the rows of the open page the Query has not taken yet
Remaining == IF query._page_items.some THEN query._page_items.items ELSE <<>>

\* C2: the instances yielded are exactly the rows of the returned pages, in
\* their order, each once: at every moment the rows yielded followed by the
\* rows not yet taken from the open page are the rows returned so far.
C2_YieldedAreReturnedRows ==
  yielded \o Remaining = PageRows(backend, Len(requests))

\* C2 for models without a ForeignKey column
C2_PlainModelYieldsReturnedRows ==
  query._model # "Author" => C2_YieldedAreReturnedRows

\* the refs of the link payload of a row
RowRefs(row_id) ==
  [i \in DOMAIN LinksOf(row_id) |->
     Ref(LinksOf(row_id)[i].id, LinksOf(row_id)[i].value)]

\* C4: for a model with a ForeignKey column, an iteration step that takes a
\* row returns an instance whose ForeignKey attribute is a LinkedRow over
\* the refs of the row, bound to the Database, and issues no single-row
\* request.
C4_StepReturnsLazyLinkedRow ==
  (query._model = "Author" /\ qOut.op \in {"next", "first"} /\ qOut.row # None)
    => /\ qOut.out = "ok"
       /\ qOut.gets = <<>>
       /\ qOut.val.id = qOut.row
       /\ DictGet(qOut.val.attrs, "posts")
            = LinkedRow_init(TRUE, "Post", RowRefs(qOut.row), <<>>)

\* every filter of the Query is a parameter of the request
CarriesFilters(req) ==
  \A i \in DOMAIN query._filters :
     LET kv == Filter_to_query_parameter(query._filters[i])
     IN DictHas(req.params, kv[1]) /\ DictGet(req.params, kv[1]) = kv[2]

\* the page size of the Query is the size parameter of the request
CarriesPageSize(req) ==
  query._page_size # None
    => /\ DictHas(req.params, Param("size"))
       /\ DictGet(req.params, Param("size")) = str(query._page_size)

\* C6: every list request targets the table of the model and carries the
\* accumulated filters and the page size set (1 after first()).
C6_RequestCarriesFiltersAndSize ==
  \A i \in DOMAIN requests :
     /\ requests[i].table_id = query._mapping.table_id
     /\ CarriesFilters(requests[i])
     /\ CarriesPageSize(requests[i])

\* C6, the table only
C6_RequestTargetsTable ==
  \A i \in DOMAIN requests : requests[i].table_id = query._mapping.table_id

\* C6, the filters only
C6_RequestCarriesFilters ==
  \A i \in DOMAIN requests : CarriesFilters(requests[i])

\* the request for the last page of the backend reports no next page
BackendEnds == ~backend[Len(backend)].fail

\* the number of rows the Query has taken from the returned pages
Taken == Len(PageRows(backend, Len(requests))) - Len(Remaining)

\* C10: when the backend ends with a page that reports no next page, the
\* iteration reaches the exhausted state only after it has yielded every
\* row of the pages.
C10_ExhaustedAfterAllRows ==
  (BackendEnds /\ Exhausted) => yielded = PageRows(backend, Len(backend))

\* C10 for models without a ForeignKey column
C10_PlainModelExhaustedAfterAllRows ==
  query._model # "Author" => C10_ExhaustedAfterAllRows

\* C10, finitely many steps and requests: an iteration step takes one more
\* row or leaves the paginator done, no request is issued past the last
\* page, and a done paginator stays done
C10_StepTakesRowOrEnds ==
  /\ [][(qOut'.op \in {"next", "first"} /\ saveLog' = saveLog)
          => \/ Taken' = Taken + 1
             \/ query'._paginator.state = "done"
             \/ qOut'.out = "RuntimeError"]_vars
  /\ [][query._paginator.state = "done" => query'._paginator.state = "done"]_vars
  /\ [](Len(requests) <= Len(backend))

\* all the rows the backend holds for the Query, in backend order
AllRows == PageRows(backend, Len(backend))

\* what first() on an unexecuted Query is to do: NoRowReturned on a result
\* of zero rows, the first row in backend order on a non-empty one
FirstAsSpecified ==
  IF AllRows = <<>>
  THEN BackendEnds => qOut.out = "NoRowReturned"
  ELSE qOut.out = "ok" /\ qOut.val.id = AllRows[1] /\ yielded = <<AllRows[1]>>

\* C11: first() on an unexecuted Query fails with NoRowReturned when the
\* result has zero rows and returns the first row of the result otherwise;
\* no request carries the page size 1 it forces.
C11_FirstReturnsFirstRowOrNoRow ==
  /\ (qOut.op = "first" /\ qOut.out # "RuntimeError") => FirstAsSpecified
  /\ \A i \in DOMAIN requests :
        DictHas(requests[i].params, Param("size"))
          => DictGet(requests[i].params, Param("size")) # str(1)

\* C11 for models without a ForeignKey column
C11_PlainModelFirst ==
  query._model # "Author" => C11_FirstReturnsFirstRowOrNoRow

(***************************************************************************)
(* mapping.py: generate_mapping; model.py: Model.of                        *)
(***************************************************************************)

\* the Column objects of a class, by attribute, hp being the heap
ColumnsOf(cls, hp) ==
  [i \in DOMAIN cls.columns |-> <<cls.columns[i][1], hp[cls.columns[i][2]]>>]

\* ModelMappingDescription(model_id, columns, table_name, field_name_overrides)
ModelMappingDescription(model_id, columns, table_name, field_name_overrides) ==
  [kind |-> "description", model_id |-> model_id, columns |-> columns,
   table_name |-> table_name, field_name_overrides |-> field_name_overrides]

\* Model.of(table_name, field_name_overrides) of class cls
Model_of(cls, hp, table_name, field_name_overrides) ==
  ModelMappingDescription(cls.id, ColumnsOf(cls, hp), table_name,
                          field_name_overrides)

\* a Model type passed to generate_mapping in place of a description
ModelType(cls, hp) ==
  [kind |-> "type", model_id |-> cls.id, columns |-> ColumnsOf(cls, hp),
   table_name |-> cls.tablename, field_name_overrides |-> <<>>]

\* "next(x for x in xs if x.name == name)": the position of the first
\* element with the name, 0 for StopIteration
RECURSIVE FirstNamed(_, _, _)
FirstNamed(xs, name, i) ==
  IF i > Len(xs) THEN 0
  ELSE IF xs[i].name = name THEN i
  ELSE FirstNamed(xs, name, i + 1)

\* "{f.name: f for f in client.list_database_table_fields(table.id)}"
RECURSIVE IndexByName(_, _)
IndexByName(fs, acc) ==
  IF fs = <<>> THEN acc
  ELSE IndexByName(Tail(fs), DictSet(acc, Head(fs).name, Head(fs)))

\* BaserowClient.list_database_table_fields
list_database_table_fields(be, table_id) ==
  IF DictHas(be.fields, table_id) THEN DictGet(be.fields, table_id) ELSE <<>>

\* a lookup that ignores the overrides
ColumnNameOnly(model, key, column) == Column_name(column)

\* "model.field_name_overrides.get(key) or column.name"
OverrideOrName(model, key, column) ==
  LET override == IF DictHas(model.field_name_overrides, key)
                  THEN DictGet(model.field_name_overrides, key) ELSE NoName
  IN IF override # "" THEN override ELSE Column_name(column)

\* the loop over model.columns of generate_mapping
RECURSIVE generate_fields(_, _, _, _)
generate_fields(model, cols, table_fields, fields) ==
  IF cols = <<>> THEN [out |-> "ok", val |-> fields]
  ELSE LET name == OverrideOrName(model, Head(cols)[1], Head(cols)[2])
       IN IF ~DictHas(table_fields, name)
          THEN [out |-> "ValueError", what |-> "field", name |-> name]
          ELSE generate_fields(model, Tail(cols), table_fields,
                 DictSet(fields, Head(cols)[1], DictGet(table_fields, name).id))

\* the loop over models of generate_mapping, db being the application
RECURSIVE generate_models(_, _, _, _)
generate_model(be, db, models, model_mappings) ==
  LET model == Head(models)
      pos == FirstNamed(db.tables, model.table_name, 1)
      fields == generate_fields(model, model.columns,
                  IndexByName(list_database_table_fields(be, db.tables[pos].id),
                              <<>>), <<>>)
  IN IF model.kind = "type" /\ model.table_name = NoName
     THEN [out |-> "ValueError", what |-> "__tablename__", name |-> model.model_id]
     ELSE IF pos = 0
     THEN [out |-> "ValueError", what |-> "table", name |-> model.table_name]
     ELSE IF fields.out # "ok" THEN fields
     ELSE generate_models(be, db, Tail(models),
            DictSet(model_mappings, model.model_id,
                    [table_id |-> db.tables[pos].id, fields |-> fields.val]))

generate_models(be, db, models, model_mappings) ==
  IF models = <<>>
  THEN [out |-> "ok",
        val |-> [database_id |-> db.id, models |-> model_mappings]]
  ELSE generate_model(be, db, models, model_mappings)

\* generate_mapping(client, dbname, *models)
generate_mapping(be, dbname, models) ==
  LET pos == FirstNamed(be.applications, dbname, 1)
  IN IF pos = 0
     THEN [out |-> "ValueError", what |-> "database", name |-> dbname]
     ELSE generate_models(be, be.applications[pos], models, <<>>)

(***************************************************************************)
(* SpecGenerate: a caller generates the mapping of some model descriptions *)
(* against a backend that holds some applications, tables and fields       *)
(***************************************************************************)

\* json.dumps of an int: its decimal digits
RECURSIVE json_dumps_int(_)
json_dumps_int(n) ==
  IF n < 10 THEN <<Digits[n + 1]>>
  ELSE Append(json_dumps_int(n \div 10), Digits[(n % 10) + 1])

\* json.loads of a number without fraction or exponent: the int it denotes
RECURSIVE json_loads_int(_)
json_loads_int(text) ==
  LET last == CHOOSE d \in DOMAIN Digits : Digits[d] = text[Len(text)]
  IN IF Len(text) = 1 THEN last - 1
     ELSE 10 * json_loads_int(SubSeq(text, 1, Len(text) - 1)) + last - 1

JsonNumber(n) == [kind |-> "number", text |-> json_dumps_int(n)]

JsonObject(members) == [kind |-> "object", members |-> members]

\* the JSON object of the dataclass ModelMapping: its fields table_id and
\* fields (_reverse_fields is no dataclass field)
ModelMapping_dump(m) ==
  JsonObject(<< <<"table_id", JsonNumber(m.table_id)>>,
                <<"fields",
                  JsonObject([i \in DOMAIN m.fields |->
                                <<m.fields[i][1], JsonNumber(m.fields[i][2])>>])>> >>)

\* a loader that leaves the fields of a ModelMapping empty
ModelMapping_load_no_fields(data) ==
  [table_id |-> json_loads_int(DictGet(data.members, "table_id").text),
   fields |-> <<>>]

\* the ModelMapping built from its JSON object
ModelMapping_load(data) ==
  [table_id |-> json_loads_int(DictGet(data.members, "table_id").text),
   fields |-> LET fs == DictGet(data.members, "fields").members
              IN [i \in DOMAIN fs |-> <<fs[i][1], json_loads_int(fs[i][2].text)>>]]

\* DatabaseMapping.to_json, and the text DatabaseMapping.save writes
DatabaseMapping_to_json(m) ==
  JsonObject(<< <<"database_id", JsonNumber(m.database_id)>>,
                <<"models",
                  JsonObject([i \in DOMAIN m.models |->
                                <<m.models[i][1],
                                  ModelMapping_dump(m.models[i][2])>>])>> >>)

\* DatabaseMapping.from_json, and DatabaseMapping.load of the text
DatabaseMapping_from_json(data) ==
  [database_id |-> json_loads_int(DictGet(data.members, "database_id").text),
   models |-> LET ms == DictGet(data.members, "models").members
              IN [i \in DOMAIN ms |-> <<ms[i][1], ModelMapping_load(ms[i][2])>>]]

MaxModels == 2

\* Application / Table / TableField, as far as generate_mapping reads them
Named(id, name) == [id |-> id, name |-> name]

\* the fields the table "Posts" of "Blog" may have (two are named "Title")
PostsFields ==
  <<Named(100, "Title"), Named(101, "Body"), Named(102, "Headline"),
    Named(103, "Title")>>

\* the backends: "Shop" with an empty table "Posts"; "Blog" or not, with
\* or without its tables "Authors" and "Posts", each with some fields
Remotes ==
  {[applications |->
      <<[id |-> 2, name |-> "Shop", tables |-> <<Named(30, "Posts")>>]>> \o
      (IF blog
       THEN <<[id |-> 1, name |-> "Blog",
               tables |-> (IF authors THEN <<Named(20, "Authors")>> ELSE <<>>)
                          \o (IF posts THEN <<Named(10, "Posts")>> ELSE <<>>)]>>
       ELSE <<>>),
    fields |->
      << <<10, SelectSeq(PostsFields, LAMBDA f : f.id \in ids)>>,
         <<20, <<Named(200, "Name")>> \o
               (IF link THEN <<Named(201, "Posts")>> ELSE <<>>)>>,
         <<30, <<>> >> >>] :
     blog \in BOOLEAN, authors \in BOOLEAN, posts \in BOOLEAN,
     link \in BOOLEAN, ids \in SUBSET {100, 101, 102, 103}}

\* class TaggedPost(Post): __tablename__ = 'Posts'
TaggedPost ==
  Model_init_subclass("TaggedPost",
    [id |-> NoId, tablename |-> "Posts", attrs |-> <<>>],
    DictGet(SchemaClasses.classes, "Post"), SchemaClasses.heap)

\* the descriptions and Model types a caller passes
GenModels ==
  LET post == DictGet(SchemaClasses.classes, "Post")
      author == DictGet(SchemaClasses.classes, "Author")
      hp == SchemaClasses.heap
  IN {Model_of(post, hp, "Posts", <<>>),
      Model_of(post, hp, "Posts", << <<"title", "Headline">> >>),
      Model_of(post, hp, "Posts", << <<"title", "">> >>),
      Model_of(post, hp, "Posts", << <<"body", "Title">> >>),
      Model_of(post, hp, "Drafts", <<>>),
      Model_of(author, hp, "Authors", <<>>),
      ModelType(post, hp),
      ModelType(TaggedPost.cls, TaggedPost.heap)}

\* the sequences over S of at most n elements
SeqsUpTo(S, n) == UNION {[1 .. k -> S] : k \in 0 .. n}

\* the database names a caller passes
GenNames == {"Blog", "Wiki"}

NoGenerate == [op |-> "none", dbname |-> "", models |-> <<>>,
               result |-> [out |-> "ok"], file |-> [kind |-> "none"],
               loaded |-> [database_id |-> None, models |-> <<>>],
               built |-> [op |-> "none", row |-> NoRow, out |-> "ok",
                          val |-> NoInstance]]

InitGenerate ==
  /\ IdleDecl /\ IdleCtor /\ IdleMap /\ IdleLink /\ IdleSave /\ IdleQuery
  /\ IdleTrans /\ IdleRef /\ IdlePair
  /\ remote \in Remotes
  /\ generated = NoGenerate

\* generate_mapping(client, dbname, *models)
Generate ==
  /\ generated.op = "none"
  /\ \E dbname \in GenNames, models \in SeqsUpTo(GenModels, MaxModels) :
       generated' = [NoGenerate EXCEPT
                       !.op = "generate", !.dbname = dbname, !.models = models,
                       !.result = generate_mapping(remote, dbname, models)]
  /\ UNCHANGED remote
  /\ UNCHANGED notGenVars

\* mapping.save(filename); DatabaseMapping.load(filename)
SaveAndLoad ==
  /\ generated.op = "generate"
  /\ generated.result.out = "ok"
  /\ generated.file.kind = "none"
  /\ \E text \in {DatabaseMapping_to_json(generated.result.val)} :
       generated' = [generated EXCEPT !.file = text,
                                      !.loaded = DatabaseMapping_from_json(text)]
  /\ UNCHANGED remote
  /\ UNCHANGED notGenVars

\* the row the backend holds under row_id in a table: a value for every
\* field of the table
RemoteRow(be, table_id, row_id) ==
  LET fs == list_database_table_fields(be, table_id)
  IN [id |-> row_id, order |-> "1.0",
      fields |-> [i \in DOMAIN fs |-> <<fs[i].id, Scalar(row_id + i)>>]]

\* db = Database(client, mapping) with the generated mapping, and the step
\* of next(db.select(Post)) that builds the instance of a row of the page
BuildGenerated ==
  /\ generated.op = "generate"
  /\ generated.result.out = "ok"
  /\ DictHas(generated.result.val.models, "Post")
  /\ generated.built.op = "none"
  /\ \E row_id \in {7} :
       LET mapping == DictGet(generated.result.val.models, "Post")
           row == RemoteRow(remote, mapping.table_id, row_id)
       IN \E r \in {Database_build_model_from_row_of(mapping, "Post", row)} :
            generated' = [generated EXCEPT
                            !.built = [op |-> "next", row |-> row,
                                       out |-> r.out, val |-> r.val]]
  /\ UNCHANGED remote
  /\ UNCHANGED notGenVars

NextGenerate == Generate \/ SaveAndLoad \/ BuildGenerated

SpecGenerate == InitGenerate /\ [][NextGenerate]_vars

\* the positions of the elements of xs that have the name
Matches(xs, name) == {i \in DOMAIN xs : xs[i].name = name}

\* the effective remote name of a declared column: the override of the
\* attribute if there is one, else the remote name of the Column
EffectiveName(model, key) ==
  IF DictHas(model.field_name_overrides, key)
  THEN DictGet(model.field_name_overrides, key)
  ELSE Column_name(DictGet(model.columns, key))

\* an application that has the database name of the call
TheApp ==
  remote.applications[CHOOSE i \in DOMAIN remote.applications :
                        remote.applications[i].name = generated.dbname]

\* a table of that application that has the table name of the description
TheTable(model) ==
  TheApp.tables[CHOOSE i \in DOMAIN TheApp.tables :
                  TheApp.tables[i].name = model.table_name]

\* the fields of that table
TheFields(model) == list_database_table_fields(remote, TheTable(model).id)

\* the descriptions of the call
Described == {generated.models[i] : i \in DOMAIN generated.models}

\* the database name, every table name and every effective remote name
\* match exactly one backend object (and no two descriptions have the same
\* model_id)
AllMatchOnce ==
  /\ Cardinality(Matches(remote.applications, generated.dbname)) = 1
  /\ \A m \in Described :
        /\ Cardinality(Matches(TheApp.tables, m.table_name)) = 1
        /\ \A k \in DictKeys(m.columns) :
              Cardinality(Matches(TheFields(m), EffectiveName(m, k))) = 1
  /\ \A i, j \in DOMAIN generated.models :
        generated.models[i].model_id = generated.models[j].model_id => i = j

\* C12: when every name matches exactly one backend object, generate
\* returns the id of the application and, per described model_id, the id of
\* the table and fields that map exactly the declared attributes to the ids
\* of the fields with their effective remote names.
C12_GenerateMapsEveryName ==
  (generated.op = "generate" /\ AllMatchOnce)
    => /\ generated.result.out = "ok"
       /\ generated.result.val.database_id = TheApp.id
       /\ DictKeys(generated.result.val.models)
            = {m.model_id : m \in Described}
       /\ \A m \in Described :
            LET mapping == DictGet(generated.result.val.models, m.model_id)
            IN /\ mapping.table_id = TheTable(m).id
               /\ DictKeys(mapping.fields) = DictKeys(m.columns)
               /\ Len(mapping.fields) = Len(m.columns)
               /\ \A k \in DictKeys(m.columns) :
                    \E i \in Matches(TheFields(m), EffectiveName(m, k)) :
                       DictGet(mapping.fields, k) = TheFields(m)[i].id

\* the end-to-end scenario: generate(client, "Blog", Post.of("Posts"))
\* against "Posts" (10) with Title (100) and Body (101) has returned
\* {database_id: 1, models: {Post: {table_id: 10, fields: {title: 100,
\* body: 101}}}}
C12_Witness ==
  /\ generated.op = "generate" /\ AllMatchOnce
  /\ generated.dbname = "Blog" /\ Len(generated.models) = 1
  /\ generated.result.out = "ok"
  /\ generated.result.val
       = [database_id |-> 1,
          models |-> << <<"Post", DictGet(SchemaMapping.models, "Post")>> >>]

\* the database name matches no application
NoDatabase == Matches(remote.applications, generated.dbname) = {}

\* the table name of the description matches no table of the database
NoTable(m) == ~NoDatabase /\ Matches(TheApp.tables, m.table_name) = {}

\* the effective remote name of the column matches no field of the table
NoField(m, k) ==
  /\ ~NoDatabase /\ ~NoTable(m)
  /\ Matches(TheFields(m), EffectiveName(m, k)) = {}

\* the error names a database, table or field that is not there (for a
\* Model type without __tablename__: the model)
NamesOffender(e) ==
  \/ e.what = "database" /\ NoDatabase /\ e.name = generated.dbname
  \/ e.what = "table" /\ \E m \in Described : NoTable(m) /\ e.name = m.table_name
  \/ e.what = "__tablename__"
       /\ \E m \in Described : m.table_name = NoName /\ e.name = m.model_id
  \/ e.what = "field"
       /\ \E m \in Described : \E k \in DictKeys(m.columns) :
             NoField(m, k) /\ e.name = EffectiveName(m, k)

\* C13: generate fails with an error that names the offender whenever the
\* database, a table or the effective remote name of a declared column
\* matches nothing; so a returned mapping omits no declared column.
C13_GenerateFailsOnMissingName ==
  /\ (/\ generated.op = "generate"
      /\ \/ NoDatabase
         \/ \E m \in Described :
               NoTable(m) \/ \E k \in DictKeys(m.columns) : NoField(m, k))
       => /\ generated.result.out = "ValueError"
          /\ NamesOffender(generated.result)
  /\ (generated.op = "generate" /\ generated.result.out = "ok")
       => \A m \in Described :
             DictKeys(DictGet(generated.result.val.models, m.model_id).fields)
               = DictKeys(m.columns)

\* no description of the call overrides a remote name with the empty string
NoEmptyOverride ==
  \A m \in Described : "" \notin DictValues(m.field_name_overrides)

\* C13 for calls without an empty override
C13_NonEmptyOverridesFail ==
  NoEmptyOverride => C13_GenerateFailsOnMissingName

(***************************************************************************)
(* SpecTranslate: a caller selects models on one Database again and        *)
(* again, narrows the Query it got, and has filters translated             *)
(***************************************************************************)

\* the filters translated: on the placeholder of a declared column, on the
\* placeholder of a Column no model declares, on a field reference
TransFilters ==
  {Filter(field, mode, value) :
     field \in {Column_id(SchemaHeap[i]) : i \in DOMAIN SchemaHeap}
               \cup {Placeholder("Title", 9), FieldRef(100), FieldRef(999)},
     mode \in {"equal", "contains"}, value \in {1, None}}

MaxAdds == 2

\* objs are the Filter objects that exist, adds the history of the
\* filter(obj) calls: the caller's object (ref), its value when it was made
\* (was), the object the Query stored, and the table at the call
NoTranslate ==
  [op |-> "none", table |-> <<>>, input |-> Filter(FieldRef(0), "", None),
   once |-> Filter(FieldRef(0), "", None), twice |-> Filter(FieldRef(0), "", None),
   objs |-> <<>>, adds |-> <<>>]

InitTranslate ==
  /\ IdleDecl /\ IdleCtor /\ IdleMap /\ IdleLink /\ IdleSave /\ IdleGen
  /\ IdleRef /\ IdlePair
  /\ database = Database_init
  /\ backend = <<>> /\ requests = <<>> /\ yielded = <<>> /\ iterated = FALSE
  /\ query = NoQuery
  /\ qOut = NoCall
  /\ translated = NoTranslate

\* query = database.select(model), any number of times before the first
\* request
SelectModel ==
  /\ requests = <<>>
  /\ \E model \in SchemaSubModels :
       \E r \in {Database_select(database, model)} :
          /\ database' = r.db
          /\ query' = r.q
  /\ qOut' = [NoCall EXCEPT !.op = "select"]
  /\ UNCHANGED <<backend, requests, yielded, iterated, translated>>
  /\ UNCHANGED notQueryTransVars

\* query.filter(f).page_size(n) on a Query just selected
Narrow ==
  /\ query._model # "" /\ query._filters = <<>>
  /\ \E f \in FilterInputs, n \in PageSizes :
       query' = Query_page_size(Query_filter(query, database, <<f>>).q, n).q
  /\ qOut' = [NoCall EXCEPT !.op = "filter"]
  /\ UNCHANGED <<database, backend, requests, yielded, iterated, translated>>
  /\ UNCHANGED notQueryTransVars

\* database._preprocess_filter(f), and once more on its result (by a
\* caller that passes no Filter object to a Query)
Translate ==
  /\ translated.adds = <<>>
  /\ \E f \in TransFilters :
       \E r \in {Database_preprocess_filter(database, f)} :
          translated' = [translated EXCEPT
                           !.op = "translate", !.table = database._translator,
                           !.input = f, !.once = r,
                           !.twice = Database_preprocess_filter(database, r)]
  /\ qOut' = [NoCall EXCEPT !.op = "translate"]
  /\ UNCHANGED <<database, backend, query, requests, yielded, iterated>>
  /\ UNCHANGED notQueryTransVars

\* f = Filter(...); query.filter(f)
FilterNewObject ==
  /\ query._model # "" /\ Len(query._filters) < MaxFilters
  /\ Len(translated.adds) < MaxAdds /\ translated.op = "none"
  /\ ~Query_executed(query)
  /\ \E f \in FilterInputs :
       LET objs == Append(translated.objs, f)
           ref == Len(objs)
       IN \E r \in {Database_preprocess_filter_at(database, objs, ref)} :
            /\ translated' = [translated EXCEPT
                   !.objs = r.objs,
                   !.adds = Append(@, [ref |-> ref, was |-> f, stored |-> r.ref,
                                       table |-> database._translator])]
            /\ query' = [query EXCEPT !._filters = Append(@, r.objs[r.ref])]
  /\ qOut' = [NoCall EXCEPT !.op = "filter"]
  /\ UNCHANGED <<database, backend, requests, yielded, iterated>>
  /\ UNCHANGED notQueryTransVars

\* query.filter(f) with a Filter object that was passed to filter before
FilterSameObject ==
  /\ query._model # "" /\ Len(query._filters) < MaxFilters
  /\ Len(translated.adds) < MaxAdds /\ translated.op = "none"
  /\ ~Query_executed(query)
  /\ \E a \in DOMAIN translated.adds :
       LET ref == translated.adds[a].ref
       IN \E r \in {Database_preprocess_filter_at(database, translated.objs, ref)} :
            /\ translated' = [translated EXCEPT
                   !.objs = r.objs,
                   !.adds = Append(@, [ref |-> ref, was |-> translated.adds[a].was,
                                       stored |-> r.ref,
                                       table |-> database._translator])]
            /\ query' = [query EXCEPT !._filters = Append(@, r.objs[r.ref])]
  /\ qOut' = [NoCall EXCEPT !.op = "filter"]
  /\ UNCHANGED <<database, backend, requests, yielded, iterated>>
  /\ UNCHANGED notQueryTransVars

\* next(query) on a Query not yet executed: the first request of the
\* Database's transport
Begin ==
  /\ query._model # "" /\ ~Query_executed(query)
  /\ requests = <<>> /\ translated.op = "none"
  /\ \E r \in {Query_next(query, backend)} :
       /\ query' = r.q
       /\ requests' = requests \o r.reqs
       /\ yielded' = IF r.out = "ok" THEN Append(yielded, r.val.id) ELSE yielded
       /\ qOut' = [op |-> "next", out |-> r.out, row |-> r.row, val |-> r.val,
                   gets |-> r.gets]
  /\ iterated' = TRUE
  /\ UNCHANGED <<database, backend, translated>>
  /\ UNCHANGED notQueryTransVars

NextTranslate ==
  \/ SelectModel \/ Narrow \/ Translate \/ FilterNewObject \/ FilterSameObject
  \/ Begin

SpecTranslate == InitTranslate /\ [][NextTranslate]_vars

\* C14: the translation of a filter whose field is not registered is the
\* filter itself; that of a filter whose field is a registered placeholder
\* has the same mode and value and the field "field_" + the registered id.
C14_TranslationRewritesRegisteredField ==
  translated.op = "translate"
    => IF DictHas(translated.table, translated.input.field)
       THEN /\ translated.once.filter = translated.input.filter
            /\ translated.once.value = translated.input.value
            /\ translated.once.field.kind = "field_"
            /\ translated.once.field.num
                 = DictGet(translated.table, translated.input.field)
       ELSE translated.once = translated.input

\* a filter on the registered placeholder of Author.posts was translated
\* to field_201, after both models were registered
C14_Witness ==
  /\ translated.op = "translate"
  /\ Len(translated.table) = 4
  /\ translated.input.field = Column_id(SchemaHeap[4])
  /\ translated.once.field.num = 201

\* C15: translating the translation of a filter gives the translation.
C15_TranslationIdempotent ==
  translated.op = "translate" => translated.twice = translated.once

\* a filter with a value on a registered placeholder was translated, twice
C15_Witness ==
  /\ translated.op = "translate"
  /\ DictHas(translated.table, translated.input.field)
  /\ translated.input.value # None
  /\ translated.once # translated.input
  /\ translated.twice = translated.once

\* C16: a select returns an unexecuted Query without filters and page
\* size; the first select of a model adds the translations of its columns
\* to the table (and changes no entry of another placeholder), a later one
\* leaves the Database unchanged.
C16_SelectRegistersOnce ==
  [][qOut'.op = "select"
       => /\ query'._filters = <<>> /\ query'._page_size = None
          /\ query'._paginator.state = "none" /\ ~query'._page_items.some
          /\ IF query'._model \in database._visited
             THEN database' = database
             ELSE /\ database'._visited = database._visited \cup {query'._model}
                  /\ LET cols == ModelColumns(query'._model)
                         fields == DictGet(SchemaMapping.models,
                                           ModelId(query'._model)).fields
                     IN /\ \A k \in DictKeys(database._translator)
                                  \ {Column_id(cols[i][2]) : i \in DOMAIN cols} :
                              DictGet(database'._translator, k)
                                = DictGet(database._translator, k)
                        /\ DictKeys(database'._translator)
                             = DictKeys(database._translator) \cup
                               {Column_id(cols[i][2]) : i \in DOMAIN cols}
                        /\ \A i \in DOMAIN cols :
                              DictGet(database'._translator, Column_id(cols[i][2]))
                                = DictGet(fields, cols[i][1])]_vars

\* Post was selected first, then Author, then Post once more
C16_Witness ==
  /\ qOut.op = "select" /\ query = Query_init(database, "Post")
  /\ database._visited = {"Post", "Author"}
  /\ database._translator[1][1] = Column_id(SchemaHeap[1])

\* the requests issued by the step
NewRequests == SubSeq(saveLog', Len(saveLog) + 1, Len(saveLog'))

\* C17: every create or update issued by save goes to the table of the
\* instance's ModelMapping and carries a record with exactly the keys
\* "field_" + fields[attr] of the declared attributes, each with the
\* serialized current value of the attribute (for a plain Column the value
\* itself).
C17_RecordHasEveryColumn ==
  [][saveOut'.calls # saveOut.calls
       => \A i \in DOMAIN NewRequests :
            LET req == NewRequests[i]
                mapping == DictGet(SchemaMapping.models, ModelId(saved.cls))
                cols == ModelColumns(saved.cls)
            IN /\ req.op \in {"create", "update"}
               /\ req.table_id = mapping.table_id
               /\ Len(req.record) = Len(cols)
               /\ DictKeys(req.record)
                    = {[kind |-> "field_", name |-> "",
                        num |-> DictGet(mapping.fields, cols[c][1])] :
                         c \in DOMAIN cols}
               /\ \A c \in DOMAIN cols :
                    DictGet(req.record,
                            [kind |-> "field_", name |-> "",
                             num |-> DictGet(mapping.fields, cols[c][1])])
                      = DictGet(saved.attrs, cols[c][1])]_vars

\* the title was changed between two saves, and the update carries the new
\* title under field_100
C17_Witness ==
  /\ Len(saveLog) >= 2
  /\ saveLog[2].op = "update"
  /\ DictGet(saveLog[1].record, FieldRef(100))
       # DictGet(saveLog[2].record, FieldRef(100))
  /\ DictGet(saveLog[2].record, FieldRef(100)) = DictGet(saved.attrs, "title")

\* C18: when the create of a save fails, the error reaches the caller, one
\* create was attempted, the instance is unchanged (no id), and a save of
\* an instance without id always issues a create, never an update.
C18_FailedCreateLeavesNoId ==
  [][(saveOut'.calls # saveOut.calls /\ saved.id = None)
       => /\ Len(NewRequests) = 1
          /\ NewRequests[1].op = "create"
          /\ ~NewRequests[1].ok
               => (saveOut'.out = "ApiError" /\ saved' = saved)]_vars

\* a create failed, and the next save created again
C18_Witness ==
  /\ Len(saveLog) >= 2
  /\ saveLog[1].op = "create" /\ ~saveLog[1].ok
  /\ saveLog[2].op = "create" /\ saveLog[2].ok
  /\ saved.id = saveLog[2].ret

\* the names of the declared attributes of the model of the last call
DeclaredNames ==
  {ModelColumns(ctor.model)[i][1] : i \in DOMAIN ModelColumns(ctor.model)}

\* every keyword of a ForeignKey attribute is a list of instances of the
\* linked model
WellTyped ==
  \A i \in DOMAIN ModelColumns(ctor.model) :
    LET key == ModelColumns(ctor.model)[i][1]
        col == ModelColumns(ctor.model)[i][2]
        value == DictGet(ctor.kwargs, key)
    IN (col.cls = "ForeignKey" /\ DictHas(ctor.kwargs, key))
         => /\ value.kind = "list"
            /\ \A j \in DOMAIN value.items :
                  IsInstance(value.items[j], col._model)

\* the last call succeeded and as_dict() of the instance has exactly the
\* keys id and the declared attributes, each with the value given
AsDictComplete ==
  /\ ctor.out = "ok"
  /\ DictKeys(ctor.dict) = {"id"} \cup DeclaredNames
  /\ Len(ctor.dict) = 1 + Cardinality(DeclaredNames)
  /\ DictGet(ctor.dict, "id") = DictGet(ctor.set, "id")
  /\ \A k \in DeclaredNames : DictGet(ctor.dict, k) = DictGet(ctor.kwargs, k)

\* C19: constructing an instance of any Model, with plain Columns or with
\* ForeignKey columns, with exactly the declared attribute names as
\* keywords succeeds, and as_dict() has exactly the keys id and every
\* declared attribute, each with the instance's value.
C19_ConstructThenAsDict ==
  (ctor # <<>> /\ ~CtorMismatch /\ WellTyped) => AsDictComplete

\* what the code does guarantee: this holds for models whose columns are
\* all plain Columns
C19_PlainModelAsDict ==
  (/\ ctor # <<>> /\ ~CtorMismatch
   /\ \A i \in DOMAIN ModelColumns(ctor.model) :
        ModelColumns(ctor.model)[i][2].cls = "Column")
    => AsDictComplete

\* the first page the backend returns is empty
FirstPageEmpty == ~backend[1].fail /\ backend[1].results = <<>>

\* the Query has yielded nothing and is exhausted after one list request
EndedAfterOneRequest ==
  /\ yielded = <<>>
  /\ Len(requests) = 1
  /\ Exhausted

\* C20 as stated: when the first page returned is empty, the Query yields
\* zero instances and is exhausted after exactly one list-rows request.
C20_EmptyFirstPageEndsAfterOneRequest ==
  (FirstPageEmpty /\ requests # <<>>) => EndedAfterOneRequest

\* C20: when the first page returned is empty and reports no next page, the
\* Query yields zero instances and is exhausted after exactly one list-rows
\* request, however many iteration steps follow; an empty first page that
\* reports a next page is followed by the request for that page.
C20_EmptyLastPageEndsAfterOneRequest ==
  /\ (FirstPageEmpty /\ ~backend[1].next /\ requests # <<>>)
       => EndedAfterOneRequest
  /\ (FirstPageEmpty /\ backend[1].next /\ requests # <<>>)
       => (Len(requests) >= 2 /\ DictGet(requests[2].params, Param("page")) = str(2))

\* a step on a backend whose only page is empty ended the iteration
C20_Witness ==
  /\ FirstPageEmpty /\ ~backend[1].next
  /\ qOut.op = "next" /\ qOut.out = "StopIteration"
  /\ EndedAfterOneRequest

\* the last call reached from_python of the ForeignKey column posts; value
\* is the keyword it was given
ReachedForeignKey ==
  /\ ctor # <<>>
  /\ ctor.model = "Author"
  /\ \E i \in DOMAIN ctor.hooks : ctor.hooks[i] = "posts"

\* C21: ForeignKey.from_python never returns a value: a value that is not a
\* collection, or a collection with an item that is not an instance of the
\* linked Model, fails with TypeError; every collection of instances of the
\* linked Model, the empty one included, fails with NotImplementedError; so
\* a construction that reaches it never succeeds and never sets the
\* attribute.
C21_ForeignKeyFromPythonAlwaysFails ==
  ReachedForeignKey =>
    LET value == DictGet(ctor.kwargs, "posts")
    IN /\ ctor.out = IF value.kind = "list"
                        /\ \A j \in DOMAIN value.items :
                             IsSubclass(value.items[j].cls, "Post")
                     THEN "NotImplementedError" ELSE "TypeError"
       /\ ~DictHas(ctor.set, "posts")
       /\ ctor.dict = <<>>

\* a list of one Post was refused with NotImplementedError
C21_Witness ==
  /\ ReachedForeignKey
  /\ DictGet(ctor.kwargs, "posts").kind = "list"
  /\ Len(DictGet(ctor.kwargs, "posts").items) = 1
  /\ ctor.out = "NotImplementedError"

\* the classes declared without an __id__ of their own
DefaultIdClasses ==
  {c \in DictValues(classes) : c.name # "Model" /\ ~c.own_id}

\* C22: every Model subtype whose own declaration does not set __id__, a
\* subtype of another Model subtype included, has its own qualified type
\* name as __id__; so two different Model types declared without __id__
\* never share one.
C22_DefaultIdIsOwnName ==
  /\ \A c \in DefaultIdClasses : c.id = c.name
  /\ \A c, d \in DefaultIdClasses : c.name # d.name => c.id # d.id

\* what the code does guarantee: a direct subtype of Model declared without
\* __id__ has its own name as __id__
C22_DirectSubtypeIdIsOwnName ==
  \A c \in DefaultIdClasses : c.base = "Model" => c.id = c.name

\* the two dicts have the same keys with the same values
SameDict(a, b) ==
  /\ DictKeys(a) = DictKeys(b)
  /\ Len(a) = Len(b)
  /\ \A k \in DictKeys(a) : DictGet(a, k) = DictGet(b, k)

C24_MappingNeverChanges ==
  /\ database._mapping = SchemaMapping
  /\ query._model # ""
       => query._mapping = DictGet(SchemaMapping.models, ModelId(query._model))

\* a Query with a filter was iterated to its second row, and that row was
\* saved
C24_Witness ==
  /\ query._filters # <<>>
  /\ Len(yielded) = 2
  /\ Len(saveLog) = 1 /\ saveLog[1].op = "update" /\ saveLog[1].row_id = yielded[2]
  /\ database._mapping = SchemaMapping

\* request i asks for the page the page before it reported: the first
\* carries no page number, a later one the number i, and page i - 1 was
\* returned and reported a next page
RequestsInOrder ==
  \A i \in DOMAIN requests :
    IF i = 1 THEN ~DictHas(requests[i].params, Param("page"))
    ELSE /\ DictHas(requests[i].params, Param("page"))
         /\ DictGet(requests[i].params, Param("page")) = str(i)
         /\ i - 1 \in DOMAIN backend
         /\ ~backend[i - 1].fail /\ backend[i - 1].next

\* the rows buffered are rows of the page fetched last
OnePageBuffered ==
  Remaining # <<>> =>
    \E k \in 0 .. Len(backend[Len(requests)].results) :
       Remaining = SubSeq(backend[Len(requests)].results, k + 1,
                          Len(backend[Len(requests)].results))

\* a step that requests a further page starts with every row of the pages
\* fetched so far yielded to the caller
FetchOnlyWhenDrained ==
  (requests # <<>> /\ requests' # requests)
    => (Remaining = <<>> /\ yielded = PageRows(backend, Len(requests)))

\* the first step issues one request when the first page has rows
FirstStepOneRequest ==
  (requests = <<>> /\ requests' # requests
     /\ ~backend[1].fail /\ backend[1].results # <<>>)
    => Len(requests') = 1

\* C25: a Query requests a further page only when every row of every page
\* fetched so far has been yielded to the caller and the page fetched last
\* reported a next page, and it requests exactly that page; so at most one
\* page is buffered, the first step issues exactly one request when the
\* first page has rows, and no page is requested twice or out of order.
C25_NextPageOnlyWhenDrained ==
  /\ [](RequestsInOrder /\ OnePageBuffered)
  /\ [][FetchOnlyWhenDrained /\ FirstStepOneRequest]_vars

\* what the code does guarantee: a further page is requested only when the
\* buffer is empty, whether or not its rows became instances
C25_NextPageOnlyWhenBufferEmpty ==
  /\ [](RequestsInOrder /\ OnePageBuffered)
  /\ [][((requests # <<>> /\ requests' # requests) => Remaining = <<>>)
          /\ FirstStepOneRequest]_vars

\* C25 for models without a ForeignKey column
C25_PlainModelNextPageOnlyWhenDrained ==
  /\ [](RequestsInOrder /\ OnePageBuffered)
  /\ [][query._model # "Author"
          => (FetchOnlyWhenDrained /\ FirstStepOneRequest)]_vars

\* C26: first() on a Query that has begun execution, by an iteration step
\* or by an earlier first(), fails with the usage error (RuntimeError),
\* issues no request, consumes no buffered row and leaves the page size
\* (and the rest of the Query) unchanged.
C26_FirstRefusedAfterExecution ==
  [][(QueryFirst /\ iterated)
       => /\ qOut'.out = "RuntimeError"
          /\ requests' = requests
          /\ qOut'.gets = <<>>
          /\ Remaining' = Remaining
          /\ yielded' = yielded
          /\ query'._page_size = query._page_size
          /\ query' = query]_vars

\* first() was refused while a row was waiting in the buffer
C26_Witness ==
  /\ qOut.op = "first" /\ qOut.out = "RuntimeError"
  /\ Len(yielded) = 1
  /\ Remaining # <<>>
  /\ Len(requests) = 1

\* C27: on a LinkedRow without a bound Database, linked[index] returns the
\* cached instance when the index is in the cache, and otherwise fails
\* without issuing a fetch and without changing the cache.
C27_DetachedReadsCacheOnly ==
  [][(lrOut'.op = "getitem" /\ ~linked._db)
       => IF DictHas(linked._cache, lrOut'.index)
          THEN /\ lrOut'.out = "ok"
               /\ lrOut'.val = <<DictGet(linked._cache, lrOut'.index)>>
               /\ lrOut'.gets = <<>> /\ linked' = linked
          ELSE /\ lrOut'.out # "ok"
               /\ lrOut'.gets = <<>> /\ fetched' = fetched
               /\ linked' = linked]_vars

\* a detached LinkedRow with index 0 cached refused index 1, which is one
\* of its refs
C27_Witness ==
  /\ ~linked._db
  /\ DictHas(linked._cache, 0)
  /\ Len(linked._refs) = 2
  /\ lrOut.op = "getitem" /\ lrOut.index = 1 /\ lrOut.out = "AssertionError"

(***************************************************************************)
(* SpecRef: ForeignKeys are constructed with a Model type or with a        *)
(* factory, copied (as inheritance does) and asked for their model         *)
(***************************************************************************)

MaxForeignKeys == 2

MaxAccesses == 2

\* what ForeignKey.__init__ is given as model: a Model type, or a
\* zero-argument factory that returns one
ModelClass(target) == [kind |-> "type", target |-> target]

ModelFactory(target) == [kind |-> "factory", target |-> target]

\* an accessor that does not keep what the factory returned
ForeignKey_model_unkept(fk) ==
  IF fk._model.kind = "type"
  THEN [val |-> fk._model.target, fk |-> fk, called |-> 0]
  ELSE [val |-> fk._model.target, fk |-> fk, called |-> 1]

\* ForeignKey.model: the type returned, the ForeignKey after the access and
\* the number of invocations of the factory
ForeignKey_model(fk) ==
  IF fk._model.kind = "type"
  THEN [val |-> fk._model.target, fk |-> fk, called |-> 0]
  ELSE [val |-> fk._model.target,
        fk |-> [fk EXCEPT !._model = ModelClass(fk._model.target)],
        called |-> 1]

\* the history kept with a ForeignKey: how it was made, the number of
\* accesses, the number of invocations of the factory by this object, the
\* invocations at its first access, and the types returned
NoAccess(given) ==
  [given |-> given, accesses |-> 0, calls |-> 0, firstCalls |-> 0,
   returned |-> {}]

InitRef ==
  /\ IdleDecl /\ IdleCtor /\ IdleMap /\ IdleLink /\ IdleSave /\ IdleQuery
  /\ IdleGen /\ IdleTrans /\ IdlePair
  /\ fkeys = <<>>

\* ForeignKey(user_name, model)
NewForeignKey ==
  /\ Len(fkeys) < MaxForeignKeys
  /\ \E target \in SchemaModels, m \in {"type", "factory"} :
       LET given == IF m = "type" THEN ModelClass(target) ELSE ModelFactory(target)
       IN fkeys' = Append(fkeys,
                     [fk |-> ForeignKey_init("Posts", Len(fkeys) + 1, given),
                      hist |-> NoAccess(given)])
  /\ UNCHANGED notRefVars

\* copy.copy of a ForeignKey, as Model.__init_subclass__ makes it
CopyForeignKey ==
  /\ Len(fkeys) < MaxForeignKeys
  /\ \E i \in DOMAIN fkeys :
       fkeys' = Append(fkeys, [fk |-> copy_copy(fkeys[i].fk),
                               hist |-> NoAccess(fkeys[i].fk._model)])
  /\ UNCHANGED notRefVars

\* fkeys[i].model
AccessModel ==
  /\ \E i \in DOMAIN fkeys :
       /\ fkeys[i].hist.accesses < MaxAccesses
       /\ \E r \in {ForeignKey_model(fkeys[i].fk)} :
            fkeys' = [fkeys EXCEPT
                        ![i].fk = r.fk,
                        ![i].hist.accesses = @ + 1,
                        ![i].hist.calls = @ + r.called,
                        ![i].hist.firstCalls =
                           IF fkeys[i].hist.accesses = 0 THEN r.called ELSE @,
                        ![i].hist.returned = @ \cup {r.val}]
  /\ UNCHANGED notRefVars

NextRef == NewForeignKey \/ CopyForeignKey \/ AccessModel

SpecRef == InitRef /\ [][NextRef]_vars

\* C28: a ForeignKey made with a factory invokes it exactly once over its
\* accesses, at the first one, and every access returns the same Model
\* type; a ForeignKey made with a Model type returns that type at every
\* access and invokes nothing.
C28_FactoryInvokedOnce ==
  \A i \in DOMAIN fkeys :
    LET h == fkeys[i].hist
    IN /\ h.accesses > 0 => h.returned = {h.given.target}
       /\ h.given.kind = "factory"
            => /\ h.calls = (IF h.accesses > 0 THEN 1 ELSE 0)
               /\ h.firstCalls = h.calls
       /\ h.given.kind = "type" => h.calls = 0

\* a ForeignKey made with a factory was accessed twice and invoked it once
C28_Witness ==
  \E i \in DOMAIN fkeys :
    /\ fkeys[i].hist.given.kind = "factory"
    /\ fkeys[i].hist.accesses = 2
    /\ fkeys[i].hist.calls = 1
    /\ fkeys[i].fk._model.kind = "type"

\* what translating the filter value f with the table gives
TranslatedWith(table, f) ==
  IF DictHas(table, f.field)
  THEN [f EXCEPT !.field = [kind |-> "field_", name |-> "",
                            num |-> DictGet(table, f.field)]]
  ELSE f

\* C29: translating a filter and adding it to a Query with filter() leaves
\* the caller's Filter as it was (its field still the placeholder) and the
\* translation table unchanged; the rewritten field is on the copy the
\* Query stores, so the same Filter added again is translated from the
\* placeholder again.
C29_CallerFilterUntouched ==
  /\ [](\A a \in DOMAIN translated.adds :
          LET add == translated.adds[a]
          IN /\ translated.objs[add.ref] = add.was
             /\ translated.objs[add.stored] = TranslatedWith(add.table, add.was)
             /\ DictHas(add.table, add.was.field) => add.stored # add.ref)
  /\ [][qOut'.op = "filter" => database' = database]_vars

\* one Filter on the placeholder of Post.title was added twice; the Query
\* stored two translated copies and the caller's Filter still has the
\* placeholder
C29_Witness ==
  /\ Len(translated.adds) = 2
  /\ translated.adds[1].ref = translated.adds[2].ref
  /\ translated.adds[1].stored # translated.adds[2].stored
  /\ translated.objs[translated.adds[1].ref].field = Column_id(SchemaHeap[1])
  /\ translated.objs[translated.adds[2].stored].field = FieldRef(100)
  /\ Len(query._filters) = 2

\* the raw row of the last build has a key for every field of the mapping
RowHasMappedFields ==
  /\ ctor # <<>>
  /\ ctor.op = "build"
  /\ DictValues(DictGet(SchemaMapping.models, ModelId(ctor.model)).fields)
       \subseteq DictKeys(ctor.row.fields)

\* C30: for a model without ForeignKey columns and a raw row with a key
\* for every field of the model's mapping, the build gives an instance
\* whose id is the id of the row and whose every declared attribute is
\* the converted value of the row at "field_" + fields[attr] (for a plain
\* Column the value itself); 'order' and keys of fields that are not in
\* the mapping neither change the result nor make it fail.
C30_BuildProjectsMappedFields ==
  RowHasMappedFields =>
    LET fields == DictGet(SchemaMapping.models, ModelId(ctor.model)).fields
    IN /\ ctor.out = "ok"
       /\ DictGet(ctor.dict, "id") = Scalar(ctor.row.id)
       /\ DictKeys(ctor.dict) = {"id"} \cup DictKeys(fields)
       /\ Len(ctor.dict) = 1 + Len(fields)
       /\ \A k \in DictKeys(fields) :
            DictGet(ctor.dict, k) = DictGet(ctor.row.fields, DictGet(fields, k))

\* a row with 'order' and with field 999 between its mapped fields was built
C30_Witness ==
  /\ RowHasMappedFields
  /\ ctor.row.order # NoName
  /\ Len(ctor.row.fields) = 3 /\ ctor.row.fields[2][1] = 999
  /\ ctor.out = "ok"
  /\ DictGet(ctor.dict, "title") # DictGet(ctor.dict, "body")

\* C31: a placeholder registered in the translation table of a Database
\* stays registered, to the same field id, over every later step (select
\* of any model, of a base Model and of its subtypes).
C31_TranslationsAppendOnly ==
  [][\A k \in DictKeys(database._translator) :
        /\ DictHas(database'._translator, k)
        /\ DictGet(database'._translator, k)
             = DictGet(database._translator, k)]_vars

\* the registrations other than those of the columns a subtype shares with
\* its base are never changed (what remains of C31)
C31_OtherTranslationsKept ==
  [][qOut'.op = "select"
       => LET cols == ModelColumns(query'._model)
          IN \A k \in DictKeys(database._translator)
                  \ {Column_id(cols[i][2]) : i \in DOMAIN cols} :
               /\ DictHas(database'._translator, k)
               /\ DictGet(database'._translator, k)
                    = DictGet(database._translator, k)]_vars

\* the filter the last filter(f) call of the step was given, and the one the
\* Query stored for it
LastAdd == translated'.adds[Len(translated'.adds)]

\* C32: a filter built from a declared column of the Query's own model is
\* stored by filter() with field "field_<id>", id the field id SchemaMapping
\* records for that attribute of that model, and the first request of the
\* Query goes to the model's table with a parameter for every stored filter.
C32_OwnColumnFilterNamesOwnField ==
  [][/\ (qOut'.op = "filter" /\ Len(translated'.adds) > Len(translated.adds))
          => LET cols == ModelColumns(query._model)
                 fields == DictGet(SchemaMapping.models,
                                   ModelId(query._model)).fields
             IN \A i \in DOMAIN cols :
                  LastAdd.was.field = Column_id(cols[i][2])
                    => /\ Len(query'._filters) = Len(query._filters) + 1
                       /\ query'._filters[Len(query'._filters)].field
                            = FieldRef(DictGet(fields, cols[i][1]))
     /\ requests' # requests
          => /\ requests'[1].table_id
                  = DictGet(SchemaMapping.models, ModelId(query._model)).table_id
             /\ \A i \in DOMAIN query._filters :
                  DictHas(requests'[1].params,
                          Filter_to_query_parameter(query._filters[i])[1])]_vars

\* the same when no subtype of the Query's model and no base of it was
\* selected on the Database (what remains of C32)
C32_OwnColumnFilterNamesOwnFieldUnrelated ==
  [][(/\ qOut'.op = "filter" /\ Len(translated'.adds) > Len(translated.adds)
      /\ \A m \in database._visited \ {query._model} :
           ~IsSubclass(m, query._model) /\ ~IsSubclass(query._model, m))
          => LET cols == ModelColumns(query._model)
                 fields == DictGet(SchemaMapping.models,
                                   ModelId(query._model)).fields
             IN \A i \in DOMAIN cols :
                  LastAdd.was.field = Column_id(cols[i][2])
                    => query'._filters[Len(query'._filters)].field
                         = FieldRef(DictGet(fields, cols[i][1]))]_vars

\* the last request of the Query was answered with a failure
FetchFailed ==
  /\ Len(requests) \in DOMAIN backend
  /\ backend[Len(requests)].fail

\* C33: an iteration step (or first) in which the transport fails raises
\* the transport's error, yields nothing, and leaves the Query executed;
\* every later iteration step raises StopIteration without a request and
\* without a row.
C33_FailedFetchEndsIteration ==
  [][/\ ((QueryNext \/ QueryFirst) /\ qOut'.out = "ApiError")
          => /\ Query_executed(query')
             /\ yielded' = yielded
             /\ Len(requests') > Len(requests)
             /\ Len(requests') \in DOMAIN backend
             /\ backend[Len(requests')].fail
             /\ \A i \in Len(requests) + 1 .. Len(requests') - 1 :
                  ~backend[i].fail
     /\ (QueryNext /\ FetchFailed)
          => /\ qOut'.out = "StopIteration"
             /\ requests' = requests /\ yielded' = yielded
             /\ query' = query /\ Query_executed(query')]_vars

\* the request for page 2 failed after the rows of page 1 were yielded, and
\* a later step ended the iteration
C33_Witness ==
  /\ FetchFailed /\ Len(requests) = 2
  /\ Len(yielded) = 2
  /\ qOut.op = "next" /\ qOut.out = "StopIteration"

\* the description of the mapped model Post in the last generate (the one
\* whose ModelMapping the result holds)
PostDescribed ==
  generated.models[CHOOSE i \in DOMAIN generated.models :
                     /\ generated.models[i].model_id = "Post"
                     /\ \A j \in DOMAIN generated.models :
                          generated.models[j].model_id = "Post" => j <= i]

\* two declared attributes of the description resolve to one remote name
SharedRemoteName ==
  \E k1, k2 \in DictKeys(PostDescribed.columns) :
     /\ k1 # k2
     /\ EffectiveName(PostDescribed, k1) = EffectiveName(PostDescribed, k2)

\* the instance built has the id of the row and every declared attribute,
\* each with the value the row holds for the attribute's field
BuiltAsMapped ==
  LET b == generated.built
      fields == DictGet(generated.result.val.models, "Post").fields
  IN /\ b.out = "ok"
     /\ b.val.id = b.row.id
     /\ DictKeys(b.val.attrs) = DictKeys(PostDescribed.columns)
     /\ \A k \in DictKeys(fields) :
          DictGet(b.val.attrs, k) = DictGet(b.row.fields, DictGet(fields, k))

\* C34: for a model without ForeignKey columns whose ModelMapping a
\* successful generate returned, also when two declared attributes resolve
\* to the same remote field name, the instance of a backend row that has a
\* value for every field of the table is built with every declared
\* attribute set.
C34_GeneratedMappingBuildsEveryRow ==
  generated.built.op = "next" => BuiltAsMapped

\* the same when no two declared attributes resolve to one remote name
\* (what remains of C34)
C34_DistinctNamesBuildEveryRow ==
  (generated.built.op = "next" /\ ~SharedRemoteName) => BuiltAsMapped

(***************************************************************************)
(* SpecPair: a caller obtains two Queries from one Database and interleaves *)
(* their filter, page_size and iteration steps; each Query has a twin that  *)
(* takes the same steps on a Database of its own                            *)
(***************************************************************************)

MaxPairFilters == 1

\* the two Queries
Slots == {1, 2}

\* the backends whose pages all have rows
PairBackends == {be \in Backends : \A p \in DOMAIN be : be[p].fail \/ be[p].results # <<>>}

\* the filter a caller passes: on the placeholder of Post.title
PairFilters == {Filter(Column_id(SchemaHeap[1]), "equal", 1)}

\* a Query whose filters are a list of the class shared by all Queries
Query_init_at_shared(lists, d, model) ==
  [lists |-> IF lists = <<>> THEN << <<>> >> ELSE lists,
   q |-> [Query_init(d, model) EXCEPT !._filters = 1]]

\* Query.__init__ with "self._filters = []" as an object: lists are the list
\* objects that exist, _filters of the Query is the new one
Query_init_at(lists, d, model) ==
  [lists |-> Append(lists, <<>>),
   q |-> [Query_init(d, model) EXCEPT !._filters = Len(lists) + 1]]

\* the Query object i with the content of its list self._filters
PairQuery(pr, i) == [pr.qs[i] EXCEPT !._filters = pr.lists[@]]

\* the objects after a method of Query i has left the Query as q
PairStore(pr, i, q) ==
  [pr EXCEPT !.qs[i] = [q EXCEPT !._filters = pr.qs[i]._filters],
             !.lists[pr.qs[i]._filters] = q._filters]

NoPair ==
  [db |-> Database_init, be |-> <<>>, lists |-> <<>>, qs |-> <<>>,
   yielded |-> <<>>, alone |-> <<>>,
   last |-> [slot |-> 0, op |-> "none", out |-> "ok", aloneOut |-> "ok"]]

InitPair ==
  /\ IdleDecl /\ IdleCtor /\ IdleMap /\ IdleLink /\ IdleSave /\ IdleQuery
  /\ IdleGen /\ IdleTrans /\ IdleRef
  /\ \E be \in PairBackends : pair = [NoPair EXCEPT !.be = be]

\* q = db.select(model); the twin is selected on a new Database
PairSelect ==
  /\ Len(pair.qs) + 1 \in Slots
  /\ \E model \in IF pair.qs = <<>> THEN {"Post"} ELSE SchemaSubModels :
       \E r \in {Query_init_at(pair.lists, pair.db, model)} :
          pair' = [pair EXCEPT
                     !.db = Database_select(pair.db, model).db,
                     !.lists = r.lists,
                     !.qs = Append(@, r.q),
                     !.yielded = Append(@, <<>>),
                     !.alone = Append(@, [db |-> Database_select(Database_init, model).db,
                                          q |-> Database_select(Database_init, model).q,
                                          yielded |-> <<>>]),
                     !.last = [slot |-> Len(pair.qs) + 1, op |-> "select",
                               out |-> "ok", aloneOut |-> "ok"]]
  /\ UNCHANGED notPairVars

\* q.filter(f) on one of the Queries
PairFilter ==
  /\ \E i \in DOMAIN pair.qs, f \in PairFilters :
       /\ \/ Len(PairQuery(pair, i)._filters) < MaxPairFilters
          \/ Query_executed(pair.qs[i])
       /\ \E r \in {Query_filter(PairQuery(pair, i), pair.db, <<f>>)},
             a \in {Query_filter(pair.alone[i].q, pair.alone[i].db, <<f>>)} :
            pair' = [PairStore(pair, i, r.q) EXCEPT
                       !.alone[i].q = a.q,
                       !.last = [slot |-> i, op |-> "filter", out |-> r.out,
                                 aloneOut |-> a.out]]
  /\ UNCHANGED notPairVars

\* q.page_size(n) on one of the Queries
PairPageSize ==
  /\ \E i \in DOMAIN pair.qs, n \in PageSizes :
       \E r \in {Query_page_size(PairQuery(pair, i), n)},
          a \in {Query_page_size(pair.alone[i].q, n)} :
         pair' = [PairStore(pair, i, r.q) EXCEPT
                    !.alone[i].q = a.q,
                    !.last = [slot |-> i, op |-> "page_size", out |-> r.out,
                              aloneOut |-> a.out]]
  /\ UNCHANGED notPairVars

\* next(q) on one of the Queries
PairNext ==
  /\ \E i \in DOMAIN pair.qs :
       \E r \in {Query_next(PairQuery(pair, i), pair.be)},
          a \in {Query_next(pair.alone[i].q, pair.be)} :
         pair' = [PairStore(pair, i, r.q) EXCEPT
                    !.yielded[i] = IF r.out = "ok" THEN Append(@, r.val.id) ELSE @,
                    !.alone[i].q = a.q,
                    !.alone[i].yielded =
                       IF a.out = "ok" THEN Append(@, a.val.id) ELSE @,
                    !.last = [slot |-> i, op |-> "next", out |-> r.out,
                              aloneOut |-> a.out]]
  /\ UNCHANGED notPairVars

NextPair == PairSelect \/ PairFilter \/ PairPageSize \/ PairNext

SpecPair == InitPair /\ [][NextPair]_vars

\* Query i has yielded the rows its twin has, the last step ended for both
\* alike, and both have the same number of filters, page size, buffered
\* page and paginator position
AsAlone(pr) ==
  /\ pr.last.out = pr.last.aloneOut
  /\ \A i \in DOMAIN pr.qs :
        /\ pr.yielded[i] = pr.alone[i].yielded
        /\ Len(PairQuery(pr, i)._filters) = Len(pr.alone[i].q._filters)
        /\ PairQuery(pr, i)._page_size = pr.alone[i].q._page_size
        /\ PairQuery(pr, i)._page_items = pr.alone[i].q._page_items
        /\ PairQuery(pr, i)._paginator.state = pr.alone[i].q._paginator.state
        /\ PairQuery(pr, i)._paginator.next = pr.alone[i].q._paginator.next

\* C35: of two Queries of one Database whose steps are interleaved, each
\* yields the rows it yields alone, and a step of one (or the select of the
\* other) leaves the other's filters, page size, buffered page, paginator
\* and yielded rows as they were.
C35_InterleavedQueriesIsolated ==
  [][/\ AsAlone(pair')
     /\ \A j \in DOMAIN pair.qs :
          j # pair'.last.slot
            => /\ PairQuery(pair', j) = PairQuery(pair, j)
               /\ pair'.yielded[j] = pair.yielded[j]]_vars

\* both Queries have a filter and have yielded rows, the second after the
\* first had begun and before it ended
C35_Witness ==
  /\ Len(pair.qs) = 2
  /\ \A i \in Slots : Len(PairQuery(pair, i)._filters) = 1
  /\ Len(pair.yielded[1]) = 2 /\ Len(pair.yielded[2]) = 1
  /\ pair.qs[1]._page_items.some /\ pair.qs[2]._page_items.some
  /\ pair.last.slot = 1 /\ pair.last.op = "next"

====
